---------------------------- MODULE Spec2Model ----------------------------
(***************************************************************************)
(* A/B test calculator: the sequential monitor, the Monte Carlo simulator  *)
(* and the multi-variant experiment designer, as state machines.           *)
(*                                                                         *)
(* Numbers.  The program computes with IEEE doubles.  Here a number is a   *)
(* record [k, v]: k = "num" with v an integer count of 1/Scale units       *)
(* (fixed point, rounded to the nearest), k = "inf" with v = 1 or -1, or     *)
(* k = "nan".  Arithmetic and comparisons on the three kinds follow the    *)
(* IEEE rules (NaN compares false with everything, x/0 is an infinity,     *)
(* 0/0 and inf-inf are NaN, the square root of a negative is NaN).         *)
(***************************************************************************)
EXTENDS Integers, Sequences, FiniteSets, TLC

(***************************************************************************)
(* Integer helpers                                                         *)
(***************************************************************************)
\* Only({e(x) : x \in {v}}) is "e(x) where x = v", with v evaluated once
Only(S) == CHOOSE r \in S : TRUE

AbsI(i) == IF i < 0 THEN -i ELSE i

SgnI(i) == IF i < 0 THEN -1 ELSE IF i = 0 THEN 0 ELSE 1

MinI(a, b) == IF a <= b THEN a ELSE b

MaxI(a, b) == IF a >= b THEN a ELSE b

\* ceil(a / b) for a >= 0, b > 0
CeilDivI(a, b) == (a + b - 1) \div b

\* floor(sqrt(n)) for a natural n, by bisection on [lo, hi]
RECURSIVE ISqrtB(_, _, _)
ISqrtB(n, lo, hi) ==
    IF lo >= hi THEN lo
    ELSE LET mid == (lo + hi + 1) \div 2
         IN  IF mid <= n \div mid THEN ISqrtB(n, mid, hi) ELSE ISqrtB(n, lo, mid - 1)

ISqrt(n) == IF n <= 0 THEN 0 ELSE ISqrtB(n, 1, MinI(n, 46340))

(***************************************************************************)
(* Fixed point on plain integers, S units to 1                             *)
(***************************************************************************)
Micro == 1000 * 1000

Centi == 10 * 10

\* the base R of the two-digit arithmetic below: S = R * R
RootOf(S) == IF S = Micro THEN 1000 ELSE IF S = Centi THEN 10 ELSE 1

\* a * b / S rounded to the nearest integer (halves up), for naturals a, b,
\* without forming a * b: a = ah R + al, b = bh R + bl,
\* a b / S + 1/2 = ah bh + (ah bl + al bh + (al bl + S/2) / R) / R
MulNat(a, b, R) ==
    Only({ah * bh + (ah * bl) \div R + (al * bh) \div R
            + (((ah * bl) % R) + ((al * bh) % R) + ((al * bl + (R * R) \div 2) \div R)) \div R
          : ah \in {a \div R}, al \in {a % R}, bh \in {b \div R}, bl \in {b % R}})

FMul(a, b, S) ==
    Only({SgnI(x) * SgnI(y) * MulNat(AbsI(x), AbsI(y), RootOf(S)) : x \in {a}, y \in {b}})

\* One digit of long division in base R: <<q, m>> with r R = q b + m, for
\* 0 <= r < b.  When r R would not fit, q is estimated from the leading
\* digits of b (b = bh R + bl; floor(r / bh) is q or q + 1) and corrected.
DivDigit(r, b, R) ==
    IF b <= 2147483647 \div R
    THEN <<(r * R) \div b, (r * R) % b>>
    ELSE Only({Only({IF m < 0 THEN <<qe - 1, m + b>> ELSE <<qe, m>>
                     : m \in {R * (r - qe * bh) - qe * bl}})
               : bh \in {b \div R}, bl \in {b % R},
                 qe \in {MinI(r \div (b \div R), R - 1)}})

\* a S / b rounded to the nearest integer (halves up), for naturals a, b > 0:
\* the integer part, two digits, and the remainder against b
DivNat(a, b, R) ==
    Only({Only({(a \div b) * R * R + d1[1] * R + d2[1] + (IF d2[2] >= b - d2[2] THEN 1 ELSE 0)
                : d2 \in {DivDigit(d1[2], b, R)}})
          : d1 \in {DivDigit(a % b, b, R)}})

\* b # 0
FDiv(a, b, S) ==
    Only({SgnI(x) * SgnI(y) * DivNat(AbsI(x), AbsI(y), RootOf(S)) : x \in {a}, y \in {b}})

\* a >= 0: Newton's iteration from the integer root, three rounds
FSqrtStep(a, x, S) ==
    Only({IF y = 0 THEN 0 ELSE (y + FDiv(a, y, S)) \div 2 : y \in {x}})

FSqrt(a, S) ==
    IF a = 0 THEN 0
    ELSE FSqrtStep(a, FSqrtStep(a, FSqrtStep(a, MaxI(1, ISqrt(a)) * ISqrt(S), S), S), S)

\* Natural logarithm of x > 0 (micro units in, micro units out):
\* x = m * 2^e with m in [1, 2), ln x = e ln 2 + 2 atanh(u), u = (m-1)/(m+1),
\* atanh(u) = u (1 + w/3 + w^2/5 + w^3/7 + w^4/9), w = u^2; ln 2 = 0.693147
RECURSIVE LnNorm(_, _)
LnNorm(x, e) ==
    IF x >= 2 * Micro THEN LnNorm(x \div 2, e + 1)
    ELSE IF x < Micro THEN LnNorm(2 * x, e - 1)
    ELSE <<x, e>>

AtanhSeries(u) ==
    Only({FMul(u, Micro + FMul(w, Micro \div 3 + FMul(w, Micro \div 5
              + FMul(w, Micro \div 7 + FMul(w, Micro \div 9, Micro), Micro),
              Micro), Micro), Micro) : w \in {FMul(u, u, Micro)}})

FLn(x) ==
    Only({me[2] * 693147
          + 2 * Only({AtanhSeries(u) : u \in {FDiv(me[1] - Micro, me[1] + Micro, Micro)}})
          : me \in {LnNorm(x, 0)}})

\* exp(-y) for y >= 0 (micro units in, micro units out): y = k ln 2 + r with
\* r in [0, ln 2), exp(-y) = exp(-r) / 2^k, exp(-r) by its series to r^10
ExpSeries(y) ==
    Only({Micro - FMul(r, Micro - FMul(r \div 2, Micro - FMul(r \div 3, Micro - FMul(r \div 4,
        Micro - FMul(r \div 5, Micro - FMul(r \div 6, Micro - FMul(r \div 7,
        Micro - FMul(r \div 8, Micro - FMul(r \div 9, Micro - r \div 10, Micro),
        Micro), Micro), Micro), Micro), Micro), Micro), Micro), Micro) : r \in {y}})

FExpNeg(y) ==
    IF y >= 21 * Micro THEN 0
    ELSE Only({(ExpSeries(y - k * 693147) + (2 ^ k) \div 2) \div (2 ^ k) : k \in {y \div 693147}})

\* Units of 10^-9, for the nine decimals of the coefficients of erf
Nano == 1000 * 1000 * 1000

\* a * b / Nano rounded to the nearest integer (halves up), for naturals
\* a, b, without forming a * b: three digits to the base 1000
MulNano(a, b) ==
    Only({Only({Only({a2 * b2 * 1000 + a2 * b1 + a1 * b2 + (c2 + 500) \div 1000
                      : c2 \in {a2 * b0 + a1 * b1 + a0 * b2 + c1 \div 1000}})
                : c1 \in {a1 * b0 + a0 * b1 + (a0 * b0) \div 1000}})
          : a2 \in {a \div Micro}, a1 \in {(a \div 1000) % 1000}, a0 \in {a % 1000},
            b2 \in {b \div Micro}, b1 \in {(b \div 1000) % 1000}, b0 \in {b % 1000}})

FMulNano(a, b) ==
    Only({SgnI(x) * SgnI(y) * MulNano(AbsI(x), AbsI(y)) : x \in {a}, y \in {b}})

(***************************************************************************)
(* Extended numbers.  Each operation evaluates its operands once (they are *)
(* bound as values x, y) and then decides by kind.                         *)
(***************************************************************************)
NumV(v) == [k |-> "num", v |-> v]

PosInf == [k |-> "inf", v |-> 1]

NegInf == [k |-> "inf", v |-> -1]

NaN == [k |-> "nan", v |-> 0]

IsNum(x) == x.k = "num"

IsNaN(x) == x.k = "nan"

IsInf(x) == x.k = "inf"

XSgn(a) == Only({IF IsNum(x) THEN SgnI(x.v) ELSE x.v : x \in {a}})

XNeg(a) == Only({IF IsNaN(x) THEN NaN ELSE [x EXCEPT !.v = -x.v] : x \in {a}})

XAbs(a) == Only({IF IsNaN(x) THEN NaN ELSE [x EXCEPT !.v = AbsI(x.v)] : x \in {a}})

XAdd(a, b) ==
    Only({IF IsNaN(x) \/ IsNaN(y) THEN NaN
          ELSE IF IsInf(x) /\ IsInf(y) THEN (IF x.v = y.v THEN x ELSE NaN)
          ELSE IF IsInf(x) THEN x
          ELSE IF IsInf(y) THEN y
          ELSE NumV(x.v + y.v) : x \in {a}, y \in {b}})

XSub(a, b) == XAdd(a, XNeg(b))

XMul(a, b, S) ==
    Only({IF IsNaN(x) \/ IsNaN(y) THEN NaN
          ELSE IF IsInf(x) \/ IsInf(y)
               THEN (IF x.v = 0 \/ y.v = 0 THEN NaN
                     ELSE [k |-> "inf", v |-> SgnI(x.v) * SgnI(y.v)])
          ELSE NumV(FMul(x.v, y.v, S)) : x \in {a}, y \in {b}})

\* a zero divisor is +0
XDiv(a, b, S) ==
    Only({IF IsNaN(x) \/ IsNaN(y) THEN NaN
          ELSE IF IsInf(x)
               THEN (IF IsInf(y) THEN NaN
                     ELSE [k |-> "inf", v |-> x.v * (IF y.v < 0 THEN -1 ELSE 1)])
          ELSE IF IsInf(y) THEN NumV(0)
          ELSE IF y.v = 0
               THEN (IF x.v = 0 THEN NaN ELSE [k |-> "inf", v |-> SgnI(x.v)])
          ELSE NumV(FDiv(x.v, y.v, S)) : x \in {a}, y \in {b}})

\* Math.sqrt
XSqrt(a, S) ==
    Only({IF IsNaN(x) THEN NaN
          ELSE IF IsInf(x) THEN (IF x.v = 1 THEN PosInf ELSE NaN)
          ELSE IF x.v < 0 THEN NaN
          ELSE NumV(FSqrt(x.v, S)) : x \in {a}})

\* Math.log
XLn(a) ==
    Only({IF IsNaN(x) THEN NaN
          ELSE IF IsInf(x) THEN (IF x.v = 1 THEN PosInf ELSE NaN)
          ELSE IF x.v < 0 THEN NaN
          ELSE IF x.v = 0 THEN NegInf
          ELSE NumV(FLn(x.v)) : x \in {a}})

\* "lt", "eq", "gt", or "un" (unordered) when an operand is NaN
XCmp(a, b) ==
    Only({IF IsNaN(x) \/ IsNaN(y) THEN "un"
          ELSE IF x = y THEN "eq"
          ELSE IF IsInf(x) THEN (IF x.v = -1 THEN "lt" ELSE "gt")
          ELSE IF IsInf(y) THEN (IF y.v = 1 THEN "lt" ELSE "gt")
          ELSE IF x.v < y.v THEN "lt" ELSE "gt" : x \in {a}, y \in {b}})

\* the comparisons <, <=, >, >=, === of the language: all false on NaN
XLt(a, b) == XCmp(a, b) = "lt"

XEq(a, b) == XCmp(a, b) = "eq"

XLe(a, b) == XCmp(a, b) \in {"lt", "eq"}

XGt(a, b) == XCmp(a, b) = "gt"

XGe(a, b) == XCmp(a, b) \in {"gt", "eq"}

\* Math.max, Math.min
XMax(a, b) ==
    Only({IF IsNaN(x) \/ IsNaN(y) THEN NaN
          ELSE IF XCmp(x, y) = "lt" THEN y ELSE x : x \in {a}, y \in {b}})

XMin(a, b) ==
    Only({IF IsNaN(x) \/ IsNaN(y) THEN NaN
          ELSE IF XCmp(x, y) = "gt" THEN y ELSE x : x \in {a}, y \in {b}})

\* Math.ceil
XCeil(a, S) ==
    Only({IF ~IsNum(x) THEN x
          ELSE NumV(IF x.v >= 0 THEN CeilDivI(x.v, S) * S
                    ELSE -((-x.v) \div S) * S) : x \in {a}})

(***************************************************************************)
(* State                                                                   *)
(***************************************************************************)
VARIABLES
    \* SequentialTestingCalculator (useState)
    currentSampleSize, maxSampleSize, controlConversions, treatmentConversions,
    alpha, beta, enableFutility, enableHarm, boundaryType, seqResults,
    \* one call of a function outside any component: arguments, <<return value>>,
    \* and the local variables of a call that loops (<<>> when it has none)
    fnArgs, fnResult, frame,
    \* VirtualUserSimulator (useState), and the runSimulation calls suspended
    \* at their await, in the order their timers fire
    isRunning, progress, simResults, currentSimulation, numberOfSimulations,
    treatmentEffect, loops,
    \* ExperimentDesigner (useState: config, analysis, dailyTraffic,
    \* costPerVisitor), the effects its last render left to run, and the last
    \* reading of Date.now() that named a variant
    variants, totalTrafficAllocation, power, significance, analysis, dailyTraffic,
    costPerVisitor, pendingEffects, lastNow,
    \* SignificanceTestCalculator (useState); sigResults is results: <<>> for
    \* null, <<r>> for a SignificanceResult r
    visitorsA, conversionsA, visitorsB, conversionsB, confidenceLevel, sigResults,
    \* SampleSizeCalculator (useState): the inputs, results (<<>> for null),
    \* isCalculating, and the timers set by handleCalculate that have not fired
    calcInputs, calcResults, isCalculating, calcTimers

seqVars == <<currentSampleSize, maxSampleSize, controlConversions,
             treatmentConversions, alpha, beta, enableFutility, enableHarm,
                      boundaryType, seqResults>>

\* a call of one function on its own: arguments and return value
fnVars == <<fnArgs, fnResult, frame>>

simVars == <<isRunning, progress, simResults, currentSimulation, numberOfSimulations,
            treatmentEffect, loops>>

designVars == <<variants, totalTrafficAllocation, power, significance, analysis,
               dailyTraffic, costPerVisitor, pendingEffects, lastNow>>

sigVars == <<visitorsA, conversionsA, visitorsB, conversionsB, confidenceLevel, sigResults>>

calcVars == <<calcInputs, calcResults, isCalculating, calcTimers>>

vars == <<seqVars, fnVars, simVars, designVars, sigVars, calcVars>>

\* what the SequentialTestingCalculator leaves alone
notSeq == <<fnVars, simVars, designVars, sigVars, calcVars>>

\* what the VirtualUserSimulator leaves alone
notSim == <<seqVars, fnVars, designVars, sigVars, calcVars>>

\* what the ExperimentDesigner leaves alone
notDesign == <<seqVars, fnVars, simVars, sigVars, calcVars>>

\* what the SignificanceTestCalculator leaves alone
notSig == <<seqVars, fnVars, simVars, designVars, calcVars>>

\* what the SampleSizeCalculator leaves alone
notCalc == <<seqVars, fnVars, simVars, designVars, sigVars>>

(***************************************************************************)
(* SequentialTestingCalculator: the numeric functions.  Quantities are in  *)
(* micro units; the component's closure variables are passed explicitly.   *)
(***************************************************************************)
Mul(a, b) == XMul(a, b, Micro)

Div(a, b) == XDiv(a, b, Micro)

Sqrt(a) == XSqrt(a, Micro)

\* an integer literal or input of the program
Lit(i) == NumV(i * Micro)

One == Lit(1)

Half == NumV(Micro \div 2)

Hundred == Lit(100)

\* coefficients a[1], a[2], b[1], b[2] of normalInverse, in micro units
InvA1 == -39696830

InvA2 == 220946098

InvB1 == -54476099

InvB2 == 161585837

\* x = t - (a[2] + a[1] t) / (1 + b[1] t + b[2] t t)
normalInverseTail(t) ==
    XSub(t, Div(XAdd(NumV(InvA2), Mul(NumV(InvA1), t)),
                XAdd(XAdd(One, Mul(NumV(InvB1), t)), Mul(Mul(NumV(InvB2), t), t))))

normalInverseUnsigned(p) ==
    Only({IF XLe(q, Lit(0)) THEN NegInf
          ELSE IF XGe(q, One) THEN PosInf
          ELSE IF XEq(q, Half) THEN Lit(0)
          ELSE Only({normalInverseTail(t) :
                     t \in {Sqrt(Mul(Lit(-2),
                                     XLn(IF XLt(q, Half) THEN q ELSE XSub(One, q))))}})
          : q \in {p}})

normalInverse(p) ==
    Only({IF XLe(q, Lit(0)) THEN NegInf
          ELSE IF XGe(q, One) THEN PosInf
          ELSE IF XEq(q, Half) THEN Lit(0)
          ELSE Mul(IF XLt(q, Half) THEN Lit(-1) ELSE One,
                   Only({normalInverseTail(t) :
                         t \in {Sqrt(Mul(Lit(-2),
                                         XLn(IF XLt(q, Half) THEN q ELSE XSub(One, q))))}}))
          : q \in {p}})

getOBrienFlemingBound(t, al) ==
    Div(Sqrt(Mul(Lit(-2), XLn(Div(al, Lit(2))))), Sqrt(t))

\* the constant c of getPocockBound, in micro units
PocockC == 2024000

getPocockBound(al, maxAnalyses) == NumV(PocockC)

\* Math.pow(t, delta - 0.5) at the default delta = 0.25, the only one used:
\* t^(-1/4) = 1 / sqrt(sqrt(t)); NaN below 0, Infinity at 0, 0 at Infinity
PowMinusQuarter(t) == Div(One, Sqrt(Sqrt(t)))

getWangTsiatiBound(t, al) ==
    Mul(normalInverse(XSub(One, Div(al, Lit(2)))), PowMinusQuarter(t))

BoundaryTypes == {"obrien-fleming", "pocock", "wang-tsiatis"}

\* the switch on boundaryType: upperBound
upperBoundOf(t, bt, al) ==
    CASE bt = "obrien-fleming" -> getOBrienFlemingBound(t, al)
      [] bt = "pocock"         -> getPocockBound(al, 5)
      [] bt = "wang-tsiatis"   -> getWangTsiatiBound(t, al)
      [] OTHER                 -> normalInverse(XSub(One, Div(al, Lit(2))))

lowerBoundOfFallbackUnnegated(upperBound, bt) ==
    IF bt \in BoundaryTypes THEN XNeg(upperBound) ELSE upperBound

\* the switch on boundaryType: lowerBound = -upperBound in each case
lowerBoundOf(upperBound, bt) == XNeg(upperBound)

calculateSequentialBounds(n, nMax, bt, al, be, fut) ==
    Only({[upper    |-> upperBound,
           lower    |-> lowerBoundOf(upperBound, bt),
           futility |-> IF fut THEN normalInverse(be) ELSE NegInf]
          : upperBound \in {upperBoundOf(Div(n, nMax), bt, al)}})

calculateCurrentZScore(cur, cc, tc) ==
    Only({Only({IF XEq(se, Lit(0)) THEN Lit(0)
                ELSE Div(XSub(Div(tc, n), Div(cc, n)), se)
                : se \in {Sqrt(Mul(Mul(pooledP, XSub(One, pooledP)), Div(Lit(2), n)))}})
          : n \in {Div(cur, Lit(2))}, pooledP \in {Div(XAdd(cc, tc), cur)}})

(***************************************************************************)
(* erf and normalCDF, the same text in each file that uses them.  The      *)
(* argument and normalCDF are in micro units; the coefficients of erf have *)
(* nine decimals and erf is in nano units: t and exp(-x x) are computed in *)
(* micro units and the polynomial in nano units.                           *)
(***************************************************************************)
\* a1 .. a5 in nano units, p in micro units
ErfA1 == 254829592

ErfA2 == -284496736

ErfA3 == 1421413741

ErfA4 == -1453152027

ErfA5 == 1061405429

ErfP == 327591

\* (((((a5 t + a4) t) + a3) t + a2) t + a1) t, t in nano units
erfPolynomial(t) ==
    FMulNano(FMulNano(FMulNano(FMulNano(FMulNano(ErfA5, t) + ErfA4, t) + ErfA3, t)
                      + ErfA2, t) + ErfA1, t)

\* y = 1.0 - polynomial(t) * Math.exp(-x * x), t = 1.0 / (1.0 + p * x), for
\* x = Math.abs(x) finite
erfMagnitude(x) ==
    Only({Nano - FMulNano(erfPolynomial(t), 1000 * FExpNeg(FMul(x, x, Micro)))
          : t \in {1000 * FDiv(Micro, Micro + FMul(ErfP, x, Micro), Micro)}})

\* sign = x >= 0 ? 1 : -1, where -0 >= 0: the model's 0 is both zeros
erfSign(x) == IF XGe(x, NumV(0)) THEN 1 ELSE -1

\* at an infinity t = 0 and exp(-x x) = 0: y = 1; NaN gives NaN
erf(a) ==
    Only({IF IsNaN(x) THEN NaN
          ELSE IF IsInf(x) THEN NumV(erfSign(x) * Nano)
          ELSE NumV(erfSign(x) * erfMagnitude(AbsI(x.v))) : x \in {a}})

\* Math.sqrt(2) in micro units
Sqrt2 == 1414214

\* 0.5 * (1 + erf(x / Math.sqrt(2))), in micro units
normalCDF(a) ==
    Only({IF IsNaN(e) THEN NaN ELSE NumV((Nano + e.v + 1000) \div 2000)
          : e \in {erf(Div(a, NumV(Sqrt2)))}})

\* erf called on its own, on arguments in micro units
ErfArgs == [fn : {"erf"}, x : {-3000000, -500000, -1, 0, 1, 500000, 3000000}]

callErf ==
    /\ fnArgs.fn = "erf"
    /\ fnResult = <<>>
    /\ fnResult' = <<erf(NumV(fnArgs.x))>>
    /\ UNCHANGED <<fnArgs, frame, seqVars, simVars, designVars, sigVars, calcVars>>

(***************************************************************************)
(* calculateProbabilityOfSuccess of the sequential analyser; the sample    *)
(* sizes it closes over are passed as cur and nMax.                        *)
(***************************************************************************)
\* 1 - (currentSampleSize / maxSampleSize)
remainingInformationOf(cur, nMax) == XSub(One, Div(cur, nMax))

\* the normal approximation the function ends with
probabilityBeyondUpper(currentZ, bounds, cur, nMax) ==
    Only({Only({XSub(One, normalCDF(XSub(adjustedUpperBound, adjustedZ)))
                : adjustedUpperBound \in {Mul(bounds.upper, Sqrt(XSub(One, remainingInformation)))},
                  adjustedZ \in {XAdd(currentZ, Mul(drift, Sqrt(remainingInformation)))}})
          : remainingInformation \in {remainingInformationOf(cur, nMax)},
            drift \in {Mul(currentZ, Sqrt(Div(cur, nMax)))}})

calculateProbabilityOfSuccessWithoutEarlyReturn(currentZ, bounds, cur, nMax) ==
    probabilityBeyondUpper(currentZ, bounds, cur, nMax)

calculateProbabilityOfSuccess(currentZ, bounds, cur, nMax) ==
    IF XLe(remainingInformationOf(cur, nMax), Lit(0))
    THEN (IF XGt(currentZ, bounds.upper) THEN Lit(1) ELSE Lit(0))
    ELSE probabilityBeyondUpper(currentZ, bounds, cur, nMax)

\* current z and upper bound in micro units, sample sizes as entered
ProbabilityArgs == [fn : {"calculateProbabilityOfSuccess"}, z : {-3000000, 0, 2000000, 2500000, 3000000}, upper : {2000000, 2500000}, cur : {0, 500, 1000, 2000}, nMax : {0, 1000}]

callCalculateProbabilityOfSuccess ==
    /\ fnArgs.fn = "calculateProbabilityOfSuccess"
    /\ fnResult = <<>>
    /\ fnResult' = <<calculateProbabilityOfSuccess(NumV(fnArgs.z), [upper |-> NumV(fnArgs.upper), lower |-> XNeg(NumV(fnArgs.upper))], Lit(fnArgs.cur), Lit(fnArgs.nMax))>>
    /\ UNCHANGED <<fnArgs, frame, seqVars, simVars, designVars, sigVars, calcVars>>

(***************************************************************************)
(* SequentialTestingCalculator: the boundary history and the analysis.     *)
(***************************************************************************)
\* const steps = 20
Steps == 20

\* (maxSampleSize * i) / steps, for whole maxSampleSize (exact in micro units)
historyN(nMax, i) == NumV(nMax * i * (Micro \div Steps))

\* Math.abs(n - currentSampleSize) < maxSampleSize / steps
nearCurrentSampleSize(n, cur, nMax) == XLt(XAbs(XSub(n, Lit(cur))), Div(Lit(nMax), Lit(Steps)))

\* one point of the history; the optional zScore is <<>> when it is not set
historyPoint(i, cur, nMax, cc, tc, bt, al, be, fut) ==
    Only({Only({[n             |-> n,
                 upperBound    |-> bounds.upper,
                 lowerBound    |-> bounds.lower,
                 futilityBound |-> bounds.futility,
                 zScore        |-> IF nearCurrentSampleSize(n, cur, nMax)
                                   THEN <<calculateCurrentZScore(Lit(cur), Lit(cc), Lit(tc))>>
                                   ELSE <<>>]
                : bounds \in {calculateSequentialBounds(n, Lit(nMax), bt, NumV(al), NumV(be), fut)}})
          : n \in {historyN(nMax, i)}})

generateBoundaryHistory(cur, nMax, cc, tc, bt, al, be, fut) ==
    [i \in 1..Steps |-> historyPoint(i, cur, nMax, cc, tc, bt, al, be, fut)]

recommendationOfFutilityFirst(currentZ, bounds, harm, fut) ==
    IF XGe(currentZ, bounds.upper) THEN "stop_success"
    ELSE IF fut /\ XLe(currentZ, bounds.futility) THEN "stop_futility"
    ELSE IF XLe(currentZ, bounds.lower)
         THEN (IF harm THEN "stop_harm" ELSE "continue")
    ELSE "continue"

\* the if-chain of performSequentialAnalysis that sets recommendation
recommendationOf(currentZ, bounds, harm, fut) ==
    IF XGe(currentZ, bounds.upper) THEN "stop_success"
    ELSE IF XLe(currentZ, bounds.lower)
         THEN (IF harm THEN "stop_harm" ELSE "continue")
    ELSE IF fut /\ XLe(currentZ, bounds.futility) THEN "stop_futility"
    ELSE "continue"

\* performSequentialAnalysis from currentP on: what it derives from the z-score
\* and the bounds it has computed
analysisResultOf(currentZ, bounds, cur, nMax, harm, fut) ==
    Only({[currentZ             |-> currentZ,
           currentP             |-> Mul(Lit(2), XSub(One, normalCDF(XAbs(currentZ)))),
           bounds               |-> bounds,
           recommendation       |-> recommendationOf(currentZ, bounds, harm, fut),
           probabilityOfSuccess |-> probabilityOfSuccess,
           expectedSampleSize   |-> XAdd(cur, Mul(XSub(nMax, cur), XSub(One, probabilityOfSuccess)))]
          : probabilityOfSuccess \in {calculateProbabilityOfSuccess(currentZ, bounds, cur, nMax)}})

\* The result also carries boundaryHistory, which is generateBoundaryHistory
\* of the same inputs; it is followed on its own and not stored here.
performSequentialAnalysis(cur, nMax, cc, tc, bt, al, be, fut, harm) ==
    analysisResultOf(calculateCurrentZScore(Lit(cur), Lit(cc), Lit(tc)),
                     calculateSequentialBounds(Lit(cur), Lit(nMax), bt, NumV(al), NumV(be), fut),
                     Lit(cur), Lit(nMax), harm, fut)

(***************************************************************************)
(* SequentialTestingCalculator: the component.  Every input handler sets   *)
(* one piece of state; the effect that depends on all of them then runs    *)
(* in the same commit and, when its guard holds, replaces the result.      *)
(***************************************************************************)
\* values typed into the number inputs
SampleSizeInputs == {0, 500}

MaxSampleInputs == {1000, 2000}

ControlInputs == {25, 60}

TreatmentInputs == {35, 60}

\* the values the alpha and beta selects offer, in micro units
AlphaOptions == {10000, 50000}

BetaOptions == {100000, 200000}

seqEffectGuard(cur, cc, tc) == cur # 0 /\ cc >= 0 /\ tc >= 0

\* performSequentialAnalysis over the inputs above, evaluated once
analysisOf ==
    [i \in SampleSizeInputs \X MaxSampleInputs \X ControlInputs \X TreatmentInputs
            \X BoundaryTypes \X AlphaOptions \X BetaOptions \X BOOLEAN \X BOOLEAN |->
        performSequentialAnalysis(i[1], i[2], i[3], i[4], i[5], i[6], i[7], i[8], i[9])]

\* the effect of the commit that made the inputs (cur, ..., harm)
seqEffect(cur, nMax, cc, tc, bt, al, be, fut, harm) ==
    seqResults' = IF seqEffectGuard(cur, cc, tc)
                  THEN analysisOf[<<cur, nMax, cc, tc, bt, al, be, fut, harm>>]
                  ELSE seqResults

SeqInit ==
    /\ currentSampleSize = 500
    /\ maxSampleSize = 2000
    /\ controlConversions = 25
    /\ treatmentConversions = 35
    /\ alpha = 50000
    /\ beta = 200000
    /\ enableFutility = TRUE
    /\ enableHarm = TRUE
    /\ boundaryType = "obrien-fleming"
    /\ seqResults = performSequentialAnalysis(500, 2000, 25, 35, "obrien-fleming",
                                              50000, 200000, TRUE, TRUE)

\* no call in progress
FnIdle == fnArgs = <<>> /\ fnResult = <<>> /\ frame = <<>>

setCurrentSampleSize ==
    \E x \in SampleSizeInputs :
        /\ currentSampleSize' = x
        /\ UNCHANGED <<maxSampleSize, controlConversions, treatmentConversions, alpha,
                       beta, enableFutility, enableHarm, boundaryType>>
        /\ seqEffect(x, maxSampleSize, controlConversions, treatmentConversions,
                     boundaryType, alpha, beta, enableFutility, enableHarm)
        /\ UNCHANGED notSeq

setMaxSampleSize ==
    \E x \in MaxSampleInputs :
        /\ maxSampleSize' = x
        /\ UNCHANGED <<currentSampleSize, controlConversions, treatmentConversions,
                       alpha, beta, enableFutility, enableHarm, boundaryType>>
        /\ seqEffect(currentSampleSize, x, controlConversions, treatmentConversions,
                     boundaryType, alpha, beta, enableFutility, enableHarm)
        /\ UNCHANGED notSeq

setControlConversions ==
    \E x \in ControlInputs :
        /\ controlConversions' = x
        /\ UNCHANGED <<currentSampleSize, maxSampleSize, treatmentConversions, alpha,
                       beta, enableFutility, enableHarm, boundaryType>>
        /\ seqEffect(currentSampleSize, maxSampleSize, x, treatmentConversions,
                     boundaryType, alpha, beta, enableFutility, enableHarm)
        /\ UNCHANGED notSeq

setTreatmentConversions ==
    \E x \in TreatmentInputs :
        /\ treatmentConversions' = x
        /\ UNCHANGED <<currentSampleSize, maxSampleSize, controlConversions, alpha,
                       beta, enableFutility, enableHarm, boundaryType>>
        /\ seqEffect(currentSampleSize, maxSampleSize, controlConversions, x,
                     boundaryType, alpha, beta, enableFutility, enableHarm)
        /\ UNCHANGED notSeq

setAlpha ==
    \E x \in AlphaOptions :
        /\ alpha' = x
        /\ UNCHANGED <<currentSampleSize, maxSampleSize, controlConversions,
                       treatmentConversions, beta, enableFutility, enableHarm,
                       boundaryType>>
        /\ seqEffect(currentSampleSize, maxSampleSize, controlConversions,
                     treatmentConversions, boundaryType, x, beta, enableFutility,
                     enableHarm)
        /\ UNCHANGED notSeq

setBeta ==
    \E x \in BetaOptions :
        /\ beta' = x
        /\ UNCHANGED <<currentSampleSize, maxSampleSize, controlConversions,
                       treatmentConversions, alpha, enableFutility, enableHarm,
                       boundaryType>>
        /\ seqEffect(currentSampleSize, maxSampleSize, controlConversions,
                     treatmentConversions, boundaryType, alpha, x, enableFutility,
                     enableHarm)
        /\ UNCHANGED notSeq

setEnableFutility ==
    /\ enableFutility' = ~enableFutility
    /\ UNCHANGED <<currentSampleSize, maxSampleSize, controlConversions,
                   treatmentConversions, alpha, beta, enableHarm, boundaryType>>
    /\ seqEffect(currentSampleSize, maxSampleSize, controlConversions,
                 treatmentConversions, boundaryType, alpha, beta, ~enableFutility,
                 enableHarm)
    /\ UNCHANGED notSeq

setEnableHarm ==
    /\ enableHarm' = ~enableHarm
    /\ UNCHANGED <<currentSampleSize, maxSampleSize, controlConversions,
                   treatmentConversions, alpha, beta, enableFutility, boundaryType>>
    /\ seqEffect(currentSampleSize, maxSampleSize, controlConversions,
                 treatmentConversions, boundaryType, alpha, beta, enableFutility,
                 ~enableHarm)
    /\ UNCHANGED notSeq

setBoundaryType ==
    \E x \in BoundaryTypes :
        /\ boundaryType' = x
        /\ UNCHANGED <<currentSampleSize, maxSampleSize, controlConversions,
                       treatmentConversions, alpha, beta, enableFutility, enableHarm>>
        /\ seqEffect(currentSampleSize, maxSampleSize, controlConversions,
                     treatmentConversions, x, alpha, beta, enableFutility, enableHarm)
        /\ UNCHANGED notSeq

SeqNext ==
    \/ setCurrentSampleSize
    \/ setMaxSampleSize
    \/ setControlConversions
    \/ setTreatmentConversions
    \/ setAlpha
    \/ setBeta
    \/ setEnableFutility
    \/ setEnableHarm
    \/ setBoundaryType

(***************************************************************************)
(* VirtualUserSimulator.  runSimulation is an async function: it runs to   *)
(* its first await inside the click handler and is resumed by a timer.     *)
(* Every await sets a timer of the same delay, so the suspended calls      *)
(* resume in the order they suspended.  A suspended call is [n, sim]: the  *)
(* numberOfSimulations of the parameters it closed over and the index of   *)
(* the trial it runs next, with the treatmentEffect it closed over.  The   *)
(* trials draw random visitors and touch no state: what they drew is       *)
(* chosen when the summary is made.  The summary is recorded with the      *)
(* number of runs it is of and the draws it was made from.                 *)
(***************************************************************************)
\* the suspended runSimulation calls the model follows at one time
MaxLoops == 2

\* options of the numberOfSimulations select
SimulationCountOptions == {50, 100}

\* values typed into the treatmentEffect input
TreatmentEffectInputs == {0, 20}

NoResults == [simulations |-> 0]

\* the last day of a trial: for (let day = 1; day <= 30; day++)
Days == 30

\* what the random draws of a run can come to: for each trial, whether its
\* record of the first day and its record of the last day are significant
\* (pValue < 0.05)
TrialDraws == {"never", "always", "first day only", "last day of every third"}

\* simulationResults of trial i under the draws d: the records of the first
\* and the last day
simulationResultsOf(d, i) ==
    <<[day |-> 1, isSignificant |-> d \in {"always", "first day only"}],
      [day |-> Days,
       isSignificant |-> d = "always" \/ (d = "last day of every third" /\ i % 3 = 0)]>>

firstResultOf(sim) == sim[1]

\* sim[sim.length - 1]
finalResultOf(sim) == sim[Len(sim)]

\* finalResults.filter(result => result.isSignificant).length
significantResultsOf(d, n) ==
    Cardinality({i \in 0..(n - 1) : finalResultOf(simulationResultsOf(d, i)).isSignificant})

\* the summary of n trials under the draws d, run with treatment effect e;
\* percents in micro units
summaryOf(d, n, e) ==
    Only({[simulations        |-> n,
           draws              |-> d,
           treatmentEffect    |-> e,
           significantResults |-> significantResultsOf(d, n),
           powerAchieved      |-> powerAchieved,
           falsePositiveRate  |-> IF e = 0 THEN powerAchieved ELSE Lit(0)]
          : powerAchieved \in {Mul(Div(Lit(significantResultsOf(d, n)), Lit(n)), Hundred)}})

SimInit ==
    /\ isRunning = FALSE
    /\ progress = 0
    /\ simResults = NoResults
    /\ currentSimulation = 0
    /\ numberOfSimulations = 100
    /\ treatmentEffect = 20
    /\ loops = <<>>

\* setProgress((sim / n) * 100)
progressOf(sim, n) == (sim * 100) \div n

\* the Run button (disabled while isRunning): the call up to its first await,
\* which follows trial 0
runSimulation ==
    /\ ~isRunning
    /\ Len(loops) < MaxLoops
    /\ isRunning' = TRUE
    /\ simResults' = NoResults
    /\ currentSimulation' = 1
    /\ progress' = progressOf(0, numberOfSimulations)
    /\ loops' = Append(loops, [n |-> numberOfSimulations, sim |-> 1,
                            treatmentEffect |-> treatmentEffect])
    /\ UNCHANGED <<numberOfSimulations, treatmentEffect, notSim>>

nextAwaitEveryTwenty(sim) == ((sim + 19) \div 20) * 20

\* the first trial at or after sim that is followed by an await (sim % 10 = 0)
nextAwait(sim) == ((sim + 9) \div 10) * 10

\* a timer fires: the call suspended longest runs on to its next await, or,
\* when no trial before n has one, to its end, where it publishes its summary
resumeSimulation ==
    /\ loops # <<>>
    /\ LET l == Head(loops)
           y == nextAwait(l.sim)
       IN  IF y < l.n
           THEN /\ currentSimulation' = y + 1
                /\ progress' = progressOf(y, l.n)
                /\ loops' = Append(Tail(loops), [l EXCEPT !.sim = y + 1])
                /\ UNCHANGED <<isRunning, simResults>>
           ELSE /\ currentSimulation' = l.n
                /\ \E d \in TrialDraws : simResults' = summaryOf(d, l.n, l.treatmentEffect)
                /\ progress' = 100
                /\ isRunning' = FALSE
                /\ loops' = Tail(loops)
    /\ UNCHANGED <<numberOfSimulations, treatmentEffect, notSim>>

\* the Reset button
resetSimulation ==
    /\ simResults' = NoResults
    /\ progress' = 0
    /\ currentSimulation' = 0
    /\ isRunning' = FALSE
    /\ UNCHANGED <<numberOfSimulations, treatmentEffect, loops, notSim>>

setNumberOfSimulations ==
    \E x \in SimulationCountOptions :
        /\ numberOfSimulations' = x
        /\ UNCHANGED <<isRunning, progress, simResults, currentSimulation, treatmentEffect,
                       loops, notSim>>

setTreatmentEffect ==
    \E x \in TreatmentEffectInputs :
        /\ treatmentEffect' = x
        /\ UNCHANGED <<isRunning, progress, simResults, currentSimulation,
                       numberOfSimulations, loops, notSim>>

SimNext ==
    \/ runSimulation
    \/ resumeSimulation
    \/ resetSimulation
    \/ setNumberOfSimulations
    \/ setTreatmentEffect

(***************************************************************************)
(* The functions of SequentialTestingCalculator called on their own, on    *)
(* arguments the component's inputs cannot all produce.                    *)
(***************************************************************************)
\* a boundaryType none of the cases of the switch names
UnknownFamily == "haybittle-peto"

BoundsArgs ==
    [fn : {"calculateSequentialBounds"},
     n : {0, 500, 1000, 2000}, nMax : {500, 1000, 2000},
     bt : BoundaryTypes \cup {UnknownFamily},
     al : {10000, 50000, 100000, 900000},
     be : {100000, 200000, 300000, 500000, 800000}, fut : BOOLEAN]

\* z and the bounds, in units of one: every order of z against each bound,
\* equality included, and bounds that are not ordered as the families order them
DecisionArgs ==
    [fn : {"recommendation"},
     z : {-3, -1, 0, 2, 3}, upper : {-1, 2, 3}, lower : {-3, -1, 2},
     futility : {NegInf, Lit(-1), Lit(0), Lit(3)}, harm : BOOLEAN, fut : BOOLEAN]

callCalculateSequentialBounds ==
    /\ fnArgs.fn = "calculateSequentialBounds"
    /\ fnResult = <<>>
    /\ fnResult' = <<calculateSequentialBounds(Lit(fnArgs.n), Lit(fnArgs.nMax), fnArgs.bt,
                                               NumV(fnArgs.al), NumV(fnArgs.be), fnArgs.fut)>>
    /\ UNCHANGED <<fnArgs, frame, seqVars, simVars, designVars, sigVars, calcVars>>

\* generateBoundaryHistory called on its own, with the default conversions,
\* alpha and beta
HistoryArgs == [fn : {"generateBoundaryHistory"}, cur : {60, 100, 500, 520, 550, 1950, 2000}, nMax : {1000, 2000}, bt : BoundaryTypes, fut : BOOLEAN]

callGenerateBoundaryHistory ==
    /\ fnArgs.fn = "generateBoundaryHistory"
    /\ fnResult = <<>>
    /\ fnResult' = <<generateBoundaryHistory(fnArgs.cur, fnArgs.nMax, 25, 35, fnArgs.bt, 50000, 200000, fnArgs.fut)>>
    /\ UNCHANGED <<fnArgs, frame, seqVars, simVars, designVars, sigVars, calcVars>>

\* the analysis from a given z-score (micro units) on, with the bounds of the
\* family at the default alpha and beta: z below, at and above the bounds
AnalysisArgs == [fn : {"analysisResult"}, z : {-3000000, 0, 2023999, 2024000, 2024001, 3000000}, cur : {500, 1000, 2000}, nMax : {1000, 2000}, bt : {"pocock", "obrien-fleming"}, harm : BOOLEAN, fut : BOOLEAN]

callAnalysisResult ==
    /\ fnArgs.fn = "analysisResult"
    /\ fnResult = <<>>
    /\ fnResult' = <<analysisResultOf(NumV(fnArgs.z), calculateSequentialBounds(Lit(fnArgs.cur), Lit(fnArgs.nMax), fnArgs.bt, NumV(50000), NumV(200000), fnArgs.fut), Lit(fnArgs.cur), Lit(fnArgs.nMax), fnArgs.harm, fnArgs.fut)>>
    /\ UNCHANGED <<fnArgs, frame, seqVars, simVars, designVars, sigVars, calcVars>>

\* the if-chain of performSequentialAnalysis on a given z and bounds
callRecommendation ==
    /\ fnArgs.fn = "recommendation"
    /\ fnResult = <<>>
    /\ fnResult' = <<recommendationOf(
                         Lit(fnArgs.z),
                         [upper |-> Lit(fnArgs.upper), lower |-> Lit(fnArgs.lower),
                          futility |-> fnArgs.futility],
                         fnArgs.harm, fnArgs.fut)>>
    /\ UNCHANGED <<fnArgs, frame, seqVars, simVars, designVars, sigVars, calcVars>>

(***************************************************************************)
(* ExperimentDesigner: the numeric functions.  Rates and traffic are whole *)
(* percents; probabilities, effects and alpha are in micro units; sample   *)
(* sizes per variant are whole numbers; the total sample size and the cost *)
(* are in centi units.                                                     *)
(***************************************************************************)
\* z_alpha of calculateSampleSize, in micro units
ZAlpha == 1960000

\* z_beta of calculateSampleSize at power 80, at power 90 and otherwise
ZBeta80 == 840000

ZBeta90 == 1280000

ZBetaOther == 670000

\* Math.ceil(a / b) of two quantities of the same unit, a >= 0, b >= 0, as a
\* whole number (Infinity or NaN when the quotient is)
CeilQuot(a, b) ==
    Only({IF IsNum(x) /\ IsNum(y) /\ y.v > 0
          THEN NumV(CeilDivI(x.v, y.v))
          ELSE XDiv(x, y, 1)
          : x \in {a}, y \in {b}})

\* utils/statisticalCalculations calculateSampleSize; zAlpha is its z_alpha
sampleSizeAtZ(baselineRate, effectSize, pw, zAlpha) ==
    Only({Only({Only({CeilQuot(Mul(root, root), Mul(XSub(p2, p1), XSub(p2, p1)))
                      : root \in {XAdd(Mul(NumV(zAlpha),
                                           Sqrt(Mul(Mul(Lit(2), pooledP), XSub(One, pooledP)))),
                                       Mul(NumV(IF pw = 80 THEN ZBeta80
                                                ELSE IF pw = 90 THEN ZBeta90 ELSE ZBetaOther),
                                           Sqrt(XAdd(Mul(p1, XSub(One, p1)),
                                                     Mul(p2, XSub(One, p2))))))}})
                : pooledP \in {Div(XAdd(p1, p2), Lit(2))}})
          : p1 \in {Div(baselineRate, Lit(100))},
            p2 \in {Mul(Div(baselineRate, Lit(100)), XAdd(One, Div(effectSize, Lit(100))))}})

\* the alpha parameter is not read
calculateSampleSize(baselineRate, effectSize, pw, al) ==
    sampleSizeAtZ(baselineRate, effectSize, pw, ZAlpha)

calculateBonferroniAdjustment(numComparisons, al) == Div(al, Lit(numComparisons))

\* the body of treatmentVariants.forEach: effectSize and sampleSize of one variant
comparisonSampleSize(controlRate, variantRate, pw, adjustedAlpha) ==
    calculateSampleSize(
        Lit(controlRate),
        XAbs(Mul(Div(XSub(Lit(variantRate), Lit(controlRate)), Lit(controlRate)), Lit(100))),
        pw, adjustedAlpha)

\* the analysis returned when no variant is the control
ZeroAnalysis ==
    [totalSampleSize |-> NumV(0),
     sampleSizePerVariant |-> [k \in {} |-> NumV(0)],
     expectedDuration |-> NumV(0),
     powerAnalysis |-> [k \in {} |-> 0],
     multipleComparisonsAdjustment |-> NumV(0),
     estimatedCost |-> NumV(0)]

\* config.variants.find(v => v.isControl): the index of the first, 0 if none
controlIndexOf(vs) ==
    IF \A i \in 1..Len(vs) : ~vs[i].isControl THEN 0
    ELSE CHOOSE i \in 1..Len(vs) :
             vs[i].isControl /\ \A j \in 1..(i - 1) : ~vs[j].isControl

isTreatment(v) == ~v.isControl

\* config.variants.filter(v => !v.isControl)
treatmentsOf(vs) == SelectSeq(vs, isTreatment)

\* maxSampleSize after the forEach: Math.max over the sizes, from 0
RECURSIVE maxSampleSizeOf(_)
maxSampleSizeOf(sizes) ==
    IF sizes = <<>> THEN NumV(0)
    ELSE XMax(maxSampleSizeOf(SubSeq(sizes, 1, Len(sizes) - 1)), sizes[Len(sizes)])

\* sampleSizePerVariant after the forEach: each treatment's id and the
\* control's id are assigned at every treatment; the last assignment stays
sampleSizeMapOf(control, treatments, sizes) ==
    [k \in {treatments[i].id : i \in 1..Len(treatments)}
           \cup (IF treatments = <<>> THEN {} ELSE {control.id}) |->
        IF k = control.id THEN sizes[Len(sizes)]
        ELSE sizes[CHOOSE i \in 1..Len(treatments) :
                       /\ treatments[i].id = k
                       /\ \A j \in (i + 1)..Len(treatments) : treatments[j].id # k]]

adjustedTotalSampleOfTreatments(maxSize, numVariants, tta) ==
    XDiv(XMul(XMul(maxSize, NumV(numVariants - 1), 1), NumV(Centi), 1), NumV(tta), Centi)

\* totalSampleSize / (config.totalTrafficAllocation / 100), in centi units
adjustedTotalSampleOf(maxSize, numVariants, tta) ==
    XDiv(XMul(XMul(maxSize, NumV(numVariants), 1), NumV(Centi), 1), NumV(tta), Centi)

\* the return statement of performDesignAnalysis
designAnalysisOf(control, treatments, sizes, adjustedAlpha, len, tta, pw, daily, cost) ==
    Only({[totalSampleSize |-> adjustedTotalSample,
           sampleSizePerVariant |-> sampleSizeMapOf(control, treatments, sizes),
           expectedDuration |-> CeilQuot(adjustedTotalSample, NumV(daily * Centi)),
           powerAnalysis |-> [k \in {treatments[i].id : i \in 1..Len(treatments)} |-> pw],
           multipleComparisonsAdjustment |-> adjustedAlpha,
           estimatedCost |-> XMul(adjustedTotalSample, NumV(cost), Centi)]
          : adjustedTotalSample \in
                {adjustedTotalSampleOf(maxSampleSizeOf(sizes), len, tta)}})

\* vs: config.variants, tta: config.totalTrafficAllocation, pw: config.power,
\* sig: config.significance, daily: dailyTraffic, cost: costPerVisitor (centi)
performDesignAnalysis(vs, tta, pw, sig, daily, cost) ==
    IF controlIndexOf(vs) = 0 THEN ZeroAnalysis
    ELSE Only({Only({designAnalysisOf(control, treatments, sizes, adjustedAlpha, Len(vs),
                                      tta, pw, daily, cost)
                     : sizes \in {[i \in 1..Len(treatments) |->
                                     comparisonSampleSize(control.expectedConversionRate,
                                                          treatments[i].expectedConversionRate,
                                                          pw, adjustedAlpha)]}})
               : control \in {vs[controlIndexOf(vs)]},
                 treatments \in {treatmentsOf(vs)},
                 adjustedAlpha \in {calculateBonferroniAdjustment(
                                        Len(treatmentsOf(vs)), NumV((100 - sig) * 10000))}})

(***************************************************************************)
(* performDesignAnalysis called on its own, on designs of two and three    *)
(* variants with any number of controls and any total allocation.          *)
(***************************************************************************)
Variant(id, traffic, rate, control) ==
    [id |-> id, trafficAllocation |-> traffic, expectedConversionRate |-> rate,
     isControl |-> control]

\* config.variants.reduce((sum, v) => sum + v.trafficAllocation, 0)
RECURSIVE totalAllocationOf(_)
totalAllocationOf(vs) ==
    IF vs = <<>> THEN 0
    ELSE totalAllocationOf(SubSeq(vs, 1, Len(vs) - 1)) + vs[Len(vs)].trafficAllocation

DesignInputs ==
    {<<Variant("control", t[1], r[1], c[1]), Variant("treatment", t[2], r[2], c[2])>> :
        t \in {40, 50} \X {40, 50}, r \in {5, 6} \X {5, 6}, c \in BOOLEAN \X BOOLEAN}
    \cup
    {<<Variant("control", t[1], 5, c[1]), Variant("treatment", t[2], r[1], c[2]),
       Variant("variant_1", t[3], r[2], c[3])>> :
        t \in {<<50, 50, 0>>, <<34, 33, 33>>, <<40, 40, 10>>},
        r \in {6, 7} \X {5, 6, 7}, c \in BOOLEAN \X BOOLEAN \X BOOLEAN}

\* options of the power and significance selects; values typed into the
\* dailyTraffic and costPerVisitor (centi units) inputs
PowerOptions == {80, 90}

SignificanceOptions == {95, 99}

DailyTrafficInputs == {500, 1000, 2000}

CostInputs == {50, 100}

DesignArgs ==
    [fn : {"performDesignAnalysis"}, variants : DesignInputs, power : PowerOptions,
     significance : SignificanceOptions, dailyTraffic : DailyTrafficInputs,
     costPerVisitor : CostInputs]

\* the component's render of a config whose totalTrafficAllocation its
\* effect has set
callPerformDesignAnalysis ==
    /\ fnArgs.fn = "performDesignAnalysis"
    /\ fnResult = <<>>
    /\ fnResult' = <<performDesignAnalysis(fnArgs.variants,
                                           totalAllocationOf(fnArgs.variants),
                                           fnArgs.power, fnArgs.significance,
                                           fnArgs.dailyTraffic, fnArgs.costPerVisitor)>>
    /\ UNCHANGED <<fnArgs, frame, seqVars, simVars, designVars, sigVars, calcVars>>

\* calculateSampleSize called on its own: baseline rates and relative
\* effects in whole percents, with the rates 0 and the effects that put
\* p2 = p1 (1 + effect / 100) on or outside the ends of (0, 1)
SampleSizeArgs ==
    [fn : {"calculateSampleSize"},
     baselineRate : {0, 5, 60}, effectSize : {-100, 20, 100}, power : PowerOptions]

callCalculateSampleSize ==
    /\ fnArgs.fn = "calculateSampleSize"
    /\ fnResult = <<>>
    /\ fnResult' = <<calculateSampleSize(Lit(fnArgs.baselineRate), Lit(fnArgs.effectSize),
                                         fnArgs.power, NumV(50000))>>
    /\ UNCHANGED <<fnArgs, frame, seqVars, simVars, designVars, sigVars, calcVars>>

(***************************************************************************)
(* ExperimentDesigner with its VariantConfig.  A handler replaces config   *)
(* (or dailyTraffic, costPerVisitor); the effects of the render that       *)
(* follows run before the next event: the first, when config.variants is a *)
(* new array, stores the sum of the allocations in a new config; the       *)
(* second, on any change, stores the analysis of the config it rendered.   *)
(* The new config of the first effect makes one more render, whose second  *)
(* effect runs again.                                                      *)
(***************************************************************************)
\* the variants the model lets a configuration grow to
MaxVariants == 3

\* values typed into a variant's traffic and rate inputs
TrafficInputs == {50}

RateInputs == {5}

\* the later milliseconds Date.now() is followed through
MaxNow == 2

\* `variant_${Date.now()}`.  Ids are only compared for equality, so a
\* millisecond is named by a small number: t names the t-th millisecond in
\* which a variant was added
variantIdOf(t) == <<"variant_1", "variant_2", "variant_3", "variant_4", "variant_5">>[t]

\* Date.now() does not decrease: it reads the millisecond it last read, or
\* the next one
nowReadings == {t \in {lastNow, lastNow + 1} : 1 <= t /\ t <= MaxNow}

DesignInit ==
    /\ variants = <<Variant("control", 50, 5, TRUE), Variant("treatment", 50, 6, FALSE)>>
    /\ totalTrafficAllocation = 100
    /\ power = 80
    /\ significance = 95
    /\ dailyTraffic = 1000
    /\ costPerVisitor = 50
    /\ analysis = performDesignAnalysis(
                      <<Variant("control", 50, 5, TRUE), Variant("treatment", 50, 6, FALSE)>>,
                      100, 80, 95, 1000, 50)
    /\ pendingEffects = {}
    /\ lastNow = 0

\* onUpdateConfig({...config, variants: vs}): a new config with a new array
onUpdateConfig(vs) ==
    /\ variants' = vs
    /\ pendingEffects' = {"total", "analysis"}
    /\ UNCHANGED <<totalTrafficAllocation, power, significance, analysis, dailyTraffic,
                   costPerVisitor, notDesign>>

addVariant ==
    /\ pendingEffects = {}
    /\ Len(variants) < MaxVariants
    /\ \E t \in nowReadings :
        /\ lastNow' = t
        /\ onUpdateConfig(Append(variants, Variant(variantIdOf(t), 0, 5, FALSE)))

keepsOtherIds(v, id) == v.id # id

\* the remove button of the i-th variant: rendered when there are more than
\* two variants, disabled on a control
removeVariant ==
    /\ pendingEffects = {}
    /\ Len(variants) > 2
    /\ \E i \in 1..Len(variants) :
        /\ ~variants[i].isControl
        /\ onUpdateConfig(SelectSeq(variants, LAMBDA v : keepsOtherIds(v, variants[i].id)))
    /\ UNCHANGED lastNow

\* updateVariant(id, {trafficAllocation: x}) from the i-th variant's input
updateTrafficAllocation ==
    /\ pendingEffects = {}
    /\ \E i \in 1..Len(variants), x \in TrafficInputs :
        onUpdateConfig([j \in 1..Len(variants) |->
                           IF variants[j].id = variants[i].id
                           THEN [variants[j] EXCEPT !.trafficAllocation = x]
                           ELSE variants[j]])
    /\ UNCHANGED lastNow

\* updateVariant(id, {expectedConversionRate: x}) from the i-th variant's input
updateConversionRate ==
    /\ pendingEffects = {}
    /\ \E i \in 1..Len(variants), x \in RateInputs :
        onUpdateConfig([j \in 1..Len(variants) |->
                           IF variants[j].id = variants[i].id
                           THEN [variants[j] EXCEPT !.expectedConversionRate = x]
                           ELSE variants[j]])
    /\ UNCHANGED lastNow

\* updateVariant(id, {name}) or {description}: neither is part of the state
\* followed here, but the array is new
updateText ==
    /\ pendingEffects = {}
    /\ onUpdateConfig(variants)
    /\ UNCHANGED lastNow

\* the Control switch of the i-th variant, turned on
switchControl ==
    /\ pendingEffects = {}
    /\ \E i \in 1..Len(variants) :
        /\ ~variants[i].isControl
        /\ onUpdateConfig([j \in 1..Len(variants) |->
                              [variants[j] EXCEPT !.isControl =
                                   (variants[j].id = variants[i].id)]])
    /\ UNCHANGED lastNow

\* Math.floor(100 / config.variants.length)
equalAllocationOf(len) == 100 \div len

\* 100 - (equalAllocation * config.variants.length)
remainderOf(len) == 100 - equalAllocationOf(len) * len

balancedAllocationWithoutRemainder(len, index) == equalAllocationOf(len)

\* equalAllocation + (index < remainder ? 1 : 0), index counted from 0
balancedAllocationOf(len, index) ==
    equalAllocationOf(len) + (IF index < remainderOf(len) THEN 1 ELSE 0)

\* config.variants.map((v, index) => ({...v, trafficAllocation: ...}))
balancedVariantsOf(vs) ==
    [j \in 1..Len(vs) |->
        [vs[j] EXCEPT !.trafficAllocation = balancedAllocationOf(Len(vs), j - 1)]]

balanceTrafficAllocation ==
    /\ pendingEffects = {}
    /\ onUpdateConfig(balancedVariantsOf(variants))
    /\ UNCHANGED lastNow

\* balancing called on its own, on configurations of up to MaxBalanced
\* variants with arbitrary allocations before
MaxBalanced == 101

BalanceArgs == [fn : {"balanceTrafficAllocation"}, len : 1..MaxBalanced, traffic : {0, 50}]

callBalanceTrafficAllocation ==
    /\ fnArgs.fn = "balanceTrafficAllocation"
    /\ fnResult = <<>>
    /\ fnResult' = <<balancedVariantsOf([j \in 1..fnArgs.len |-> Variant("variant", fnArgs.traffic, 5, j = 1)])>>
    /\ UNCHANGED <<fnArgs, frame, seqVars, simVars, designVars, sigVars, calcVars>>

\* setConfig(prev => ({...prev, power})): a new config, the same array
setPower ==
    /\ pendingEffects = {}
    /\ \E x \in PowerOptions : power' = x
    /\ pendingEffects' = {"analysis"}
    /\ UNCHANGED <<variants, totalTrafficAllocation, significance, analysis, dailyTraffic,
                   costPerVisitor, lastNow, notDesign>>

setSignificance ==
    /\ pendingEffects = {}
    /\ \E x \in SignificanceOptions : significance' = x
    /\ pendingEffects' = {"analysis"}
    /\ UNCHANGED <<variants, totalTrafficAllocation, power, analysis, dailyTraffic,
                   costPerVisitor, lastNow, notDesign>>

setDailyTraffic ==
    /\ pendingEffects = {}
    /\ \E x \in DailyTrafficInputs : dailyTraffic' = x
    /\ pendingEffects' = {"analysis"}
    /\ UNCHANGED <<variants, totalTrafficAllocation, power, significance, analysis,
                   costPerVisitor, lastNow, notDesign>>

setCostPerVisitor ==
    /\ pendingEffects = {}
    /\ \E x \in CostInputs : costPerVisitor' = x
    /\ pendingEffects' = {"analysis"}
    /\ UNCHANGED <<variants, totalTrafficAllocation, power, significance, analysis,
                   dailyTraffic, lastNow, notDesign>>

\* setConfig(prev => ({...prev, name})), and likewise description,
\* hypothesis, primaryMetric, minimumDetectableEffect, successCriteria: a
\* new config whose followed fields are the old ones
setConfigText ==
    /\ pendingEffects = {}
    /\ pendingEffects' = {"analysis"}
    /\ UNCHANGED <<variants, totalTrafficAllocation, power, significance, analysis,
                   dailyTraffic, costPerVisitor, lastNow, notDesign>>

\* the effects of one render, in the order they are declared
runEffects ==
    /\ pendingEffects # {}
    /\ totalTrafficAllocation' =
           IF "total" \in pendingEffects THEN totalAllocationOf(variants)
           ELSE totalTrafficAllocation
    /\ analysis' =
           IF "analysis" \in pendingEffects /\ Len(variants) >= 2
           THEN performDesignAnalysis(variants, totalTrafficAllocation, power,
                                      significance, dailyTraffic, costPerVisitor)
           ELSE analysis
    /\ pendingEffects' = IF "total" \in pendingEffects THEN {"analysis"} ELSE {}
    /\ UNCHANGED <<variants, power, significance, dailyTraffic, costPerVisitor, lastNow,
                   notDesign>>

\* the events of the variants card
VariantConfigNext ==
    \/ addVariant
    \/ removeVariant
    \/ updateTrafficAllocation
    \/ updateConversionRate
    \/ updateText
    \/ switchControl
    \/ balanceTrafficAllocation
    \/ runEffects

\* the events of the parameter cards
ParametersNext ==
    \/ setPower
    \/ setSignificance
    \/ setDailyTraffic
    \/ setCostPerVisitor
    \/ setConfigText
    \/ runEffects

(***************************************************************************)
(* PowerAnalysisCalculator: the numeric functions, in micro units.  Rates, *)
(* effects and powers are percents.  The component's closure variables     *)
(* baselineRate and testType are passed explicitly.                        *)
(***************************************************************************)
\* the coefficients a[1..6], b[1..5], c[1..6], d[1..4] of normalInverse
InverseA == <<-39696830, 220946098, -275928510, 138357752, -30664798, 2506628>>

InverseB == <<-54476099, 161585837, -155698980, 66801312, -13280682>>

InverseC == <<-7785, -322396, -2400758, -2549733, 4374664, 2938164>>

InverseD == <<7785, 322467, 2445134, 3754409>>

\* pLow = 0.02425
PLow == 24250

\* (...((acc x + cs[k]) x + cs[k+1]) x ...) + cs[Len(cs)]
RECURSIVE hornerFrom(_, _, _, _)
hornerFrom(cs, k, acc, x) ==
    IF k > Len(cs) THEN acc
    ELSE hornerFrom(cs, k + 1, XAdd(Mul(acc, x), NumV(cs[k])), x)

\* ((((cs[1] x + cs[2]) x + ...) x + cs[Len(cs)]
horner(cs, x) == hornerFrom(cs, 2, NumV(cs[1]), x)

\* the quotient of the tail regions at q = Math.sqrt(-2 * Math.log(p))
inverseTail(a) ==
    Only({Div(horner(InverseC, q), XAdd(Mul(horner(InverseD, q), q), One)) : q \in {a}})

\* the quotient of the central region at q = p - 0.5, r = q * q
inverseCentral(a) ==
    Only({Only({Div(Mul(horner(InverseA, r), q), XAdd(Mul(horner(InverseB, r), r), One))
                : r \in {Mul(q, q)}})
          : q \in {a}})

\* normalInverse of PowerAnalysisCalculator.  A NaN p fails both comparisons
\* and takes the last branch.
rationalNormalInverse(a) ==
    Only({IF XLt(p, NumV(PLow)) THEN inverseTail(Sqrt(Mul(Lit(-2), XLn(p))))
          ELSE IF XLe(p, XSub(One, NumV(PLow))) THEN inverseCentral(XSub(p, Half))
          ELSE XNeg(inverseTail(Sqrt(Mul(Lit(-2), XLn(XSub(One, p))))))
          : p \in {a}})

TestTypes == {"two-tailed", "one-tailed"}

\* calculatePower(n, effect, alpha), as a percent in micro units
calculatePower(n, effect, al, baselineRate, testType) ==
    Only({Only({Only({
        Mul(normalCDF(Div(XSub(XAbs(XSub(p2, p1)), Mul(zAlpha, se)),
                          Sqrt(Div(XAdd(Mul(p1, XSub(One, p1)), Mul(p2, XSub(One, p2))),
                                   n)))),
            Hundred)
        : se \in {Sqrt(Mul(Mul(pooledP, XSub(One, pooledP)), Div(Lit(2), n)))},
          zAlpha \in {rationalNormalInverse(
                          XSub(One, Div(al, IF testType = "two-tailed" THEN Lit(2) ELSE One)))}})
        : pooledP \in {Div(XAdd(p1, p2), Lit(2))}})
        : p1 \in {Div(baselineRate, Hundred)},
          p2 \in {Mul(Div(baselineRate, Hundred), XAdd(One, Div(effect, Hundred)))}})

(***************************************************************************)
(* calculateMinimumEffect, one step for each pass through its loop.  The   *)
(* ends of the bracket are binary fractions: they are counted in units of  *)
(* 2^-11, which the halvings keep exact for eleven passes.                 *)
(***************************************************************************)
EffectUnit == 2 ^ 11

\* const maxIterations = 50
MaxIterations == 50

\* u units as an effect in micro units: 10^6 / 2^11 = 15625 / 32
effectOf(u) == NumV((u \div 32) * 15625 + ((u % 32) * 15625) \div 32)

MinimumEffectArgs ==
    [fn : {"calculateMinimumEffect"},
     n : {0, 100, 2000}, targetPower : {70, 80, 90, 95}, al : {10000, 50000, 100000},
     baselineRate : {0, 5, 60}, testType : TestTypes]

\* let minEffect = 1; let maxEffect = 100; let iterations = 0
MinimumEffectInit ==
    /\ fnArgs \in MinimumEffectArgs
    /\ fnResult = <<>>
    /\ frame = [minEffect |-> EffectUnit, maxEffect |-> 100 * EffectUnit, iterations |-> 0]

minimumEffectContinuesToHundredth(fr) ==
    /\ 100 * (fr.maxEffect - fr.minEffect) > EffectUnit
    /\ fr.iterations < MaxIterations

\* maxEffect - minEffect > 0.1 && iterations < maxIterations
minimumEffectContinues(fr) ==
    /\ 10 * (fr.maxEffect - fr.minEffect) > EffectUnit
    /\ fr.iterations < MaxIterations

midEffectOf(fr) == (fr.minEffect + fr.maxEffect) \div 2

\* one pass through the body of the loop
iterateMinimumEffect ==
    /\ fnResult = <<>>
    /\ minimumEffectContinues(frame)
    /\ frame' =
           IF XLt(calculatePower(Lit(fnArgs.n), effectOf(midEffectOf(frame)), NumV(fnArgs.al),
                                 Lit(fnArgs.baselineRate), fnArgs.testType),
                  Lit(fnArgs.targetPower))
           THEN [frame EXCEPT !.minEffect = midEffectOf(frame), !.iterations = @ + 1]
           ELSE [frame EXCEPT !.maxEffect = midEffectOf(frame), !.iterations = @ + 1]
    /\ UNCHANGED <<fnArgs, fnResult, seqVars, simVars, designVars, sigVars, calcVars>>

minimumEffectReturnOfLowerEnd(fr) == fr.minEffect

\* return (minEffect + maxEffect) / 2
minimumEffectReturnOf(fr) == (fr.minEffect + fr.maxEffect) \div 2

returnMinimumEffect ==
    /\ fnResult = <<>>
    /\ ~minimumEffectContinues(frame)
    /\ fnResult' = <<minimumEffectReturnOf(frame)>>
    /\ UNCHANGED <<fnArgs, frame, seqVars, simVars, designVars, sigVars, calcVars>>

MinimumEffectNext == iterateMinimumEffect \/ returnMinimumEffect

(***************************************************************************)
(* SignificanceTestCalculator: calculateSignificance.  Visitors and        *)
(* conversions are whole numbers, the confidence level a whole percent;    *)
(* every field of the result is in micro units.  effectSize (Cohen's h,    *)
(* read by no other field) is not followed.                                *)
(***************************************************************************)
\* const zCrit = 1.96, and the 1.96 of powerZ
ZCrit == 1960000

pooledSEOf(cA, vA, cB, vB) ==
    Only({Sqrt(Mul(Mul(pooledP, XSub(One, pooledP)),
                   XAdd(Div(One, Lit(vA)), Div(One, Lit(vB)))))
          : pooledP \in {Div(Lit(cA + cB), Lit(vA + vB))}})

\* Math.sqrt((pA * (1 - pA) / visitorsA) + (pB * (1 - pB) / visitorsB))
seForCIOf(pA, vA, pB, vB) ==
    Only({Sqrt(XAdd(Div(Mul(a, XSub(One, a)), Lit(vA)),
                    Div(Mul(b, XSub(One, b)), Lit(vB))))
          : a \in {pA}, b \in {pB}})

\* zCrit is the constant 1.96 at every confidence level
zCritOf(level) == NumV(ZCrit)

confidenceIntervalOf(diff, margin) ==
    Only({<<Mul(XSub(d, mg), Hundred), Mul(XAdd(d, mg), Hundred)>>
          : d \in {diff}, mg \in {margin}})

\* const zScore = (pB - pA) / pooledSE
zScoreOf(diff, pooledSE) == Div(diff, pooledSE)

significanceResultOf(pA, pB, pooledSE, zScore, seForCI, level) ==
    Only({[isSignificant       |-> XLt(pValue, NumV((100 - level) * 10000)),
           pValue              |-> pValue,
           zScore              |-> zScore,
           confidenceInterval  |-> confidenceIntervalOf(XSub(pB, pA),
                                       Mul(zCritOf(level), seForCI)),
           relativeImprovement |-> IF XGt(pA, Lit(0))
                                   THEN Mul(Div(XSub(pB, pA), pA), Hundred) ELSE Lit(0),
           conversionRateA     |-> Mul(pA, Hundred),
           conversionRateB     |-> Mul(pB, Hundred),
           standardError       |-> pooledSE,
           powerAchieved       |-> XMax(Lit(0), XMin(Hundred,
                                       Mul(normalCDF(XSub(XAbs(zScore), NumV(ZCrit))),
                                           Hundred)))]
          : pValue \in {Mul(Lit(2), XSub(One, normalCDF(XAbs(zScore))))}})

calculateSignificance(vA, cA, vB, cB, level) ==
    Only({Only({significanceResultOf(pA, pB, pooledSE, zScoreOf(XSub(pB, pA), pooledSE),
                                     seForCIOf(pA, vA, pB, vB),
                                     level)
                : pooledSE \in {pooledSEOf(cA, vA, cB, vB)}})
          : pA \in {Div(Lit(cA), Lit(vA))},
            pB \in {Div(Lit(cB), Lit(vB))}})

(***************************************************************************)
(* calculateSignificance called on its own, on observations the effect of  *)
(* the component would not pass on.                                        *)
(***************************************************************************)
ConfidenceLevels == {90, 95, 99}

SignificanceArgs ==
    [fn : {"calculateSignificance"},
     visitorsA : {0, 100, 1000}, conversionsA : {0, 50, 100},
     visitorsB : {0, 100, 1000}, conversionsB : {0, 60, 100},
     confidenceLevel : ConfidenceLevels]

callCalculateSignificance ==
    /\ fnArgs.fn = "calculateSignificance"
    /\ fnResult = <<>>
    /\ fnResult' = <<calculateSignificance(fnArgs.visitorsA, fnArgs.conversionsA,
                                           fnArgs.visitorsB, fnArgs.conversionsB,
                                           fnArgs.confidenceLevel)>>
    /\ UNCHANGED <<fnArgs, frame, seqVars, simVars, designVars, sigVars, calcVars>>

(***************************************************************************)
(* SignificanceTestCalculator: the component.  Every input handler sets    *)
(* one piece of state; the effect that depends on all five then runs and,  *)
(* when its guard holds, replaces results.                                 *)
(***************************************************************************)
\* values typed into the number inputs
VisitorInputs == {0, 1000}

ConversionAInputs == {-1, 0, 50}

ConversionBInputs == {0, 60}

\* if (visitorsA && conversionsA >= 0 && visitorsB && conversionsB >= 0)
sigEffectGuard(vA, cA, vB, cB) == vA # 0 /\ cA >= 0 /\ vB # 0 /\ cB >= 0

\* calculateSignificance over the inputs above, evaluated once
significanceOf ==
    [i \in VisitorInputs \X ConversionAInputs \X VisitorInputs \X ConversionBInputs
            \X ConfidenceLevels |->
        calculateSignificance(i[1], i[2], i[3], i[4], i[5])]

\* the effect of the commit that made the inputs (vA, ..., level)
sigEffect(vA, cA, vB, cB, level) ==
    sigResults' = IF sigEffectGuard(vA, cA, vB, cB)
                  THEN <<significanceOf[<<vA, cA, vB, cB, level>>]>>
                  ELSE sigResults

SigInit ==
    /\ visitorsA = 1000
    /\ conversionsA = 50
    /\ visitorsB = 1000
    /\ conversionsB = 60
    /\ confidenceLevel = 95
    /\ sigResults = <<calculateSignificance(1000, 50, 1000, 60, 95)>>

setVisitorsA ==
    \E x \in VisitorInputs :
        /\ visitorsA' = x
        /\ UNCHANGED <<conversionsA, visitorsB, conversionsB, confidenceLevel>>
        /\ sigEffect(x, conversionsA, visitorsB, conversionsB, confidenceLevel)
        /\ UNCHANGED notSig

setConversionsA ==
    \E x \in ConversionAInputs :
        /\ conversionsA' = x
        /\ UNCHANGED <<visitorsA, visitorsB, conversionsB, confidenceLevel>>
        /\ sigEffect(visitorsA, x, visitorsB, conversionsB, confidenceLevel)
        /\ UNCHANGED notSig

setVisitorsB ==
    \E x \in VisitorInputs :
        /\ visitorsB' = x
        /\ UNCHANGED <<visitorsA, conversionsA, conversionsB, confidenceLevel>>
        /\ sigEffect(visitorsA, conversionsA, x, conversionsB, confidenceLevel)
        /\ UNCHANGED notSig

setConversionsB ==
    \E x \in ConversionBInputs :
        /\ conversionsB' = x
        /\ UNCHANGED <<visitorsA, conversionsA, visitorsB, confidenceLevel>>
        /\ sigEffect(visitorsA, conversionsA, visitorsB, x, confidenceLevel)
        /\ UNCHANGED notSig

setConfidenceLevel ==
    \E x \in ConfidenceLevels :
        /\ confidenceLevel' = x
        /\ UNCHANGED <<visitorsA, conversionsA, visitorsB, conversionsB>>
        /\ sigEffect(visitorsA, conversionsA, visitorsB, conversionsB, x)
        /\ UNCHANGED notSig

SigNext ==
    \/ setVisitorsA
    \/ setConversionsA
    \/ setVisitorsB
    \/ setConversionsB
    \/ setConfidenceLevel

(***************************************************************************)
(* SampleSizeCalculator.  calcInputs holds the eight inputs (useState);    *)
(* rates, effects, powers and allocations are percents.  A timer is the    *)
(* handleCalculate closure it will run, that is the inputs of the render   *)
(* that set it; the timers have the same delay and fire in the order they  *)
(* were set.  Sample sizes and days are whole numbers, the other results   *)
(* are in micro units.                                                     *)
(***************************************************************************)
\* p2 of calculateSampleSize
calculatorP2(p1, effectSize, testType) ==
    IF testType = "conversion" THEN Mul(p1, XAdd(One, effectSize)) ELSE XAdd(p1, effectSize)

\* Math.sqrt(variance / n) for a whole number n: the quotient is formed with
\* two more decimals than a micro unit
standardErrorAt(variance, n) == Div(Sqrt(XDiv(XMul(variance, NumV(Centi), 1), n, 1)), Lit(10))

\* the return statement of calculateSampleSize and what it is computed from,
\* given n = Math.ceil of the sample size formula
calculatorResultOf(inp, p1, p2, zAlpha, sampleSizePerVariant) ==
    Only({Only({[sampleSizePerVariant    |-> adjustedSampleSize,
                 totalSampleSize         |-> XMul(adjustedSampleSize, NumV(inp.variants), 1),
                 expectedDuration        |-> CeilQuot(adjustedSampleSize, NumV(inp.dailyTraffic)),
                 minimumDetectableEffect |-> Mul(XAbs(XSub(p2, p1)), Hundred),
                 actualPower             |-> Mul(XSub(One, normalCDF(XSub(zAlpha, Div(XAbs(XSub(p2, p1)), se)))), Hundred),
                 confidenceInterval      |-> <<Mul(XSub(XSub(p2, p1), Mul(zAlpha, se)), Hundred),
                                               Mul(XAdd(XSub(p2, p1), Mul(zAlpha, se)), Hundred)>>]
                : adjustedSampleSize \in {CeilQuot(XMul(sampleSizePerVariant, NumV(100), 1), NumV(inp.trafficAllocation))},
                  se \in {standardErrorAt(variance, sampleSizePerVariant)}})
          : variance \in {XAdd(Mul(p1, XSub(One, p1)), Mul(p2, XSub(One, p2)))}})

\* calculateSampleSize of the component, on the inputs of its render
calculatorSampleSize(inp) ==
    Only({Only({calculatorResultOf(inp, p1, p2, zAlpha, CeilQuot(Mul(root, root), Mul(XSub(p2, p1), XSub(p2, p1))))
                : root \in {XAdd(Mul(zAlpha, Sqrt(Mul(Lit(2), Mul(Div(XAdd(p1, p2), Lit(2)), XSub(One, Div(XAdd(p1, p2), Lit(2))))))),
                                 Mul(zBeta, Sqrt(XAdd(Mul(p1, XSub(One, p1)), Mul(p2, XSub(One, p2))))))}})
          : zAlpha \in {rationalNormalInverse(XSub(One, Div(Div(Lit(100 - inp.significance), Hundred), Lit(2))))},
            zBeta \in {rationalNormalInverse(XSub(One, Div(Lit(100 - inp.power), Hundred)))},
            p1 \in {Div(Lit(inp.baselineRate), Hundred)},
            p2 \in {calculatorP2(Div(Lit(inp.baselineRate), Hundred), Div(Lit(inp.minimumDetectableEffect), Hundred), inp.testType)}})

\* the guard of the effect
calcEffectGuard(inp) ==
    inp.baselineRate # 0 /\ inp.minimumDetectableEffect # 0 /\ inp.power # 0 /\ inp.significance # 0

\* timers that may be pending at once
MaxTimers == 2

\* the initial values of useState
DefaultCalcInputs ==
    [baselineRate |-> 5, minimumDetectableEffect |-> 20, power |-> 80, significance |-> 95,
     trafficAllocation |-> 50, dailyTraffic |-> 1000, testType |-> "conversion", variants |-> 2]

\* after the first render and its effect: handleCalculate has set a timer
CalcInit ==
    /\ calcInputs = DefaultCalcInputs
    /\ calcResults = <<>>
    /\ isCalculating = TRUE
    /\ calcTimers = <<DefaultCalcInputs>>

\* the render after a setter has given the inputs inp: its effect calls
\* handleCalculate when the guard holds
calcEffect(inp) ==
    /\ calcInputs' = inp
    /\ IF calcEffectGuard(inp)
       THEN /\ Len(calcTimers) < MaxTimers
            /\ isCalculating' = TRUE
            /\ calcTimers' = Append(calcTimers, inp)
       ELSE UNCHANGED <<isCalculating, calcTimers>>
    /\ UNCHANGED <<calcResults, notCalc>>

\* values typed into the number inputs, options of the selects
CalcBaselineInputs == {0, 5, 10}

CalcEffectInputs == {10, 20}

CalcPowerOptions == {80, 90}

CalcSignificanceOptions == {95, 99}

CalcVariantsOptions == {2, 3}

CalcTrafficInputs == {50, 100}

CalcDailyTrafficInputs == {1000, 2000}

CalcTestTypes == {"conversion", "revenue"}

\* a setter called with the value the state already has renders nothing
setBaselineRate ==
    \E x \in CalcBaselineInputs :
        /\ calcInputs.baselineRate # x
        /\ calcEffect([calcInputs EXCEPT !.baselineRate = x])

setMinimumDetectableEffect ==
    \E x \in CalcEffectInputs :
        /\ calcInputs.minimumDetectableEffect # x
        /\ calcEffect([calcInputs EXCEPT !.minimumDetectableEffect = x])

setCalcPower ==
    \E x \in CalcPowerOptions :
        /\ calcInputs.power # x
        /\ calcEffect([calcInputs EXCEPT !.power = x])

setCalcSignificance ==
    \E x \in CalcSignificanceOptions :
        /\ calcInputs.significance # x
        /\ calcEffect([calcInputs EXCEPT !.significance = x])

setVariants ==
    \E x \in CalcVariantsOptions :
        /\ calcInputs.variants # x
        /\ calcEffect([calcInputs EXCEPT !.variants = x])

setTrafficAllocation ==
    \E x \in CalcTrafficInputs :
        /\ calcInputs.trafficAllocation # x
        /\ calcEffect([calcInputs EXCEPT !.trafficAllocation = x])

setCalcDailyTraffic ==
    \E x \in CalcDailyTrafficInputs :
        /\ calcInputs.dailyTraffic # x
        /\ calcEffect([calcInputs EXCEPT !.dailyTraffic = x])

setTestType ==
    \E x \in CalcTestTypes :
        /\ calcInputs.testType # x
        /\ calcEffect([calcInputs EXCEPT !.testType = x])

\* the oldest timer fires: the callback of setTimeout in handleCalculate
fireCalculationTimer ==
    /\ calcTimers # <<>>
    /\ calcResults' = <<calculatorSampleSize(Head(calcTimers))>>
    /\ isCalculating' = FALSE
    /\ calcTimers' = Tail(calcTimers)
    /\ UNCHANGED <<calcInputs, notCalc>>

\* the rate, effect and power inputs, and the timers
CalcRatesNext ==
    \/ setBaselineRate
    \/ setMinimumDetectableEffect
    \/ setCalcPower
    \/ fireCalculationTimer

\* the other inputs, and the timers
CalcTrafficNext ==
    \/ setCalcSignificance
    \/ setVariants
    \/ setTrafficAllocation
    \/ setCalcDailyTraffic
    \/ setTestType
    \/ fireCalculationTimer

(***************************************************************************)
(* Specifications: one per component, the other components as mounted and *)
(* left alone.                                                             *)
(***************************************************************************)
SeqSpecInit == SeqInit /\ FnIdle /\ SimInit /\ DesignInit /\ SigInit /\ CalcInit

SpecSeq == SeqSpecInit /\ [][SeqNext]_vars

SimSpecInit == SeqInit /\ FnIdle /\ SimInit /\ DesignInit /\ SigInit /\ CalcInit

SpecSim == SimSpecInit /\ [][SimNext]_vars

FnInit ==
    /\ fnArgs \in BoundsArgs \cup DecisionArgs \cup DesignArgs \cup SignificanceArgs
                 \cup SampleSizeArgs \cup ErfArgs \cup ProbabilityArgs \cup HistoryArgs
                 \cup AnalysisArgs \cup BalanceArgs
    /\ fnResult = <<>>
    /\ frame = <<>>

FnNext ==
    \/ callCalculateSequentialBounds
    \/ callRecommendation
    \/ callPerformDesignAnalysis
    \/ callCalculateSignificance
    \/ callCalculateSampleSize
    \/ callErf
    \/ callCalculateProbabilityOfSuccess
    \/ callGenerateBoundaryHistory
    \/ callAnalysisResult
    \/ callBalanceTrafficAllocation

FnSpecInit == SeqInit /\ FnInit /\ SimInit /\ DesignInit /\ SigInit /\ CalcInit

SpecFn == FnSpecInit /\ [][FnNext]_vars

DesignSpecInit == SeqInit /\ FnIdle /\ SimInit /\ DesignInit /\ SigInit /\ CalcInit

SpecVariantConfig == DesignSpecInit /\ [][VariantConfigNext]_vars

SpecParameters == DesignSpecInit /\ [][ParametersNext]_vars

\* the effects of a commit are run before the next event is handled
SpecVariantConfigEffects ==
    DesignSpecInit /\ [][VariantConfigNext]_vars /\ WF_vars(runEffects)

MinimumEffectSpecInit == SeqInit /\ MinimumEffectInit /\ SimInit /\ DesignInit /\ SigInit /\ CalcInit

\* the call runs on: nothing suspends it
SpecMinimumEffect ==
    MinimumEffectSpecInit /\ [][MinimumEffectNext]_vars /\ WF_vars(MinimumEffectNext)

SigSpecInit == SeqInit /\ FnIdle /\ SimInit /\ DesignInit /\ SigInit /\ CalcInit

SpecSig == SigSpecInit /\ [][SigNext]_vars

CalcSpecInit == SeqInit /\ FnIdle /\ SimInit /\ DesignInit /\ SigInit /\ CalcInit

SpecSampleSizeRates == CalcSpecInit /\ [][CalcRatesNext]_vars

SpecSampleSizeTraffic == CalcSpecInit /\ [][CalcTrafficNext]_vars

(***************************************************************************)
(* Properties of the sequential functions                                  *)
(***************************************************************************)
\* C1: the recommendation is stop_success when z >= upper; otherwise, when
\* z <= lower, stop_harm if harm monitoring is on and continue if it is off,
\* whatever the futility bound; otherwise stop_futility when futility
\* monitoring is on and z <= futility; otherwise continue.
C1_DecisionRule ==
    (fnArgs.fn = "recommendation" /\ fnResult # <<>>) =>
        LET a == fnArgs
            r == fnResult[1]
            belowFutility == a.futility.k = "num" /\ a.z * Micro <= a.futility.v
        IN  /\ a.z >= a.upper => r = "stop_success"
            /\ (a.z < a.upper /\ a.z <= a.lower) =>
                   r = (IF a.harm THEN "stop_harm" ELSE "continue")
            /\ (a.z < a.upper /\ a.z > a.lower /\ a.fut /\ belowFutility) =>
                   r = "stop_futility"
            /\ (a.z < a.upper /\ a.z > a.lower /\ ~(a.fut /\ belowFutility)) =>
                   r = "continue"

\* z at or below both lower and futility with futility monitoring on and harm
\* monitoring off: the recommendation is continue
C1_Witness ==
    /\ fnArgs.fn = "recommendation"
    /\ fnResult = <<"continue">>
    /\ fnArgs.z < fnArgs.upper /\ fnArgs.z <= fnArgs.lower
    /\ ~fnArgs.harm /\ fnArgs.fut
    /\ fnArgs.futility.k = "num" /\ fnArgs.z * Micro <= fnArgs.futility.v

\* C10: for each family, the fallback included, and all n >= 0, nMax > 0 and
\* alpha of the select, the bounds are a number or an infinity and
\* lower = -upper.
C10_BoundsSymmetric ==
    (fnArgs.fn = "calculateSequentialBounds" /\ fnResult # <<>>) =>
        LET b == fnResult[1]
        IN  /\ b.upper.k \in {"num", "inf"}
            /\ b.lower.k = b.upper.k
            /\ b.lower.v + b.upper.v = 0

\* the fallback family returned a finite, nonzero pair of bounds
C10_Witness ==
    /\ fnArgs.fn = "calculateSequentialBounds"
    /\ fnArgs.bt = UnknownFamily
    /\ fnResult # <<>>
    /\ fnResult[1].upper.k = "num" /\ fnResult[1].upper.v > 0
    /\ fnResult[1].lower.k = "num" /\ fnResult[1].lower.v < 0

\* C9: the published result is the analysis of the current inputs
C9_PublishedIsAnalysisOfInputs ==
    seqResults = analysisOf[<<currentSampleSize, maxSampleSize, controlConversions,
                              treatmentConversions, boundaryType, alpha, beta,
                              enableFutility, enableHarm>>]

(***************************************************************************)
(* Properties of the VirtualUserSimulator                                  *)
(***************************************************************************)
\* nothing published, nothing in progress
SimClean ==
    /\ simResults = NoResults
    /\ progress = 0
    /\ currentSimulation = 0
    /\ ~isRunning

\* C2: once the simulator is clean (as resetSimulation leaves it, also in the
\* middle of a run) it stays clean until runSimulation is invoked: no step
\* other than a Run click changes results, progress, the run index or
\* isRunning, so no summary of an abandoned run appears.
C2_CleanUntilRun == [][(SimClean /\ ~runSimulation) => SimClean']_vars

\* C3: progress is within 0..100 and is 100 when a summary is published, the
\* run index does not exceed numberOfSimulations, and no step other than a
\* Run or Reset click decreases progress or the run index.
C3_ProgressMonotone ==
    [][/\ progress' \in 0..100
       /\ currentSimulation' <= numberOfSimulations'
       /\ (simResults' # NoResults /\ simResults = NoResults) => progress' = 100
       /\ (~runSimulation /\ ~resetSimulation) =>
              (progress' >= progress /\ currentSimulation' >= currentSimulation)]_vars

(***************************************************************************)
(* Properties of performDesignAnalysis                                     *)
(***************************************************************************)
\* a call of performDesignAnalysis has returned
DesignReturned == fnArgs.fn = "performDesignAnalysis" /\ fnResult # <<>>

numControlsOf(vs) == Cardinality({i \in 1..Len(vs) : vs[i].isControl})

\* C5: a design whose allocations do not sum to 100 gets the zero analysis,
\* never a computed one.
C5_NoAnalysisUnlessTrafficIs100 ==
    (DesignReturned /\ totalAllocationOf(fnArgs.variants) # 100) =>
        fnResult[1] = ZeroAnalysis

\* C6: a design with no control or with several gets the zero analysis.
C6_NoAnalysisUnlessOneControl ==
    (DesignReturned /\ numControlsOf(fnArgs.variants) # 1) =>
        fnResult[1] = ZeroAnalysis

\* C7: with one control and N >= 1 other variants, the reported adjusted
\* alpha is alpha / N and the per-variant sample sizes are computed at that
\* level: when they are finite, they are not the ones the same design gets
\* at another significance.
C7_SampleSizeAtAdjustedAlpha ==
    (/\ DesignReturned
     /\ numControlsOf(fnArgs.variants) = 1
     /\ \A k \in DOMAIN fnResult[1].sampleSizePerVariant :
            IsNum(fnResult[1].sampleSizePerVariant[k])) =>
        /\ fnResult[1].multipleComparisonsAdjustment.k = "num"
        /\ LET n == Len(fnArgs.variants) - 1
               d == fnResult[1].multipleComparisonsAdjustment.v * n
                        - (100 - fnArgs.significance) * 10000
           IN  2 * d <= n /\ -2 * d <= n
        /\ \A sg \in SignificanceOptions \ {fnArgs.significance} :
               performDesignAnalysis(fnArgs.variants, totalAllocationOf(fnArgs.variants),
                                     fnArgs.power, sg, fnArgs.dailyTraffic,
                                     fnArgs.costPerVisitor).sampleSizePerVariant
                   # fnResult[1].sampleSizePerVariant

\* C8: for a design with one control and a positive total allocation, with
\* m the largest sample size of its variants: totalSampleSize is
\* m * numberOfVariants / (totalTrafficAllocation / 100), expectedDuration is
\* the least whole number of days of dailyTraffic that reaches it, and
\* estimatedCost is totalSampleSize * costPerVisitor (to the nearest
\* hundredth); all three are infinite when m is.
C8_TotalsFromMaximum ==
    (/\ DesignReturned
     /\ numControlsOf(fnArgs.variants) = 1
     /\ totalAllocationOf(fnArgs.variants) > 0) =>
        LET a == fnResult[1]
            vs == fnArgs.variants
            tta == totalAllocationOf(vs)
            sizes == {a.sampleSizePerVariant[k] : k \in DOMAIN a.sampleSizePerVariant}
            daily == fnArgs.dailyTraffic * Centi
        IN  IF \E x \in sizes : x.k = "inf"
            THEN /\ a.totalSampleSize = PosInf
                 /\ a.expectedDuration = PosInf
                 /\ a.estimatedCost = PosInf
            ELSE LET m == CHOOSE x \in sizes : \A y \in sizes : y.v <= x.v
                     exact == m.v * Len(vs) * Centi * 100
                 IN  /\ a.totalSampleSize.k = "num"
                     /\ 2 * (a.totalSampleSize.v * tta - exact) <= tta
                     /\ 2 * (exact - a.totalSampleSize.v * tta) <= tta
                     /\ a.expectedDuration.k = "num"
                     /\ a.expectedDuration.v * daily >= a.totalSampleSize.v
                     /\ (a.expectedDuration.v - 1) * daily < a.totalSampleSize.v
                     /\ a.estimatedCost.k = "num"
                     /\ 2 * (a.estimatedCost.v * Centi
                               - a.totalSampleSize.v * fnArgs.costPerVisitor) <= Centi
                     /\ 2 * (a.totalSampleSize.v * fnArgs.costPerVisitor
                               - a.estimatedCost.v * Centi) <= Centi

\* three variants allocated 40 + 40 + 10, one control, two treatments of
\* different finite sample sizes
C8_Witness ==
    /\ DesignReturned
    /\ Len(fnArgs.variants) = 3
    /\ numControlsOf(fnArgs.variants) = 1
    /\ totalAllocationOf(fnArgs.variants) = 90
    /\ fnResult[1].totalSampleSize.k = "num"
    /\ fnResult[1].totalSampleSize.v > 0
    /\ Cardinality({fnResult[1].sampleSizePerVariant[k] :
                       k \in DOMAIN fnResult[1].sampleSizePerVariant}) = 2

(***************************************************************************)
(* Properties of the variants card                                         *)
(***************************************************************************)
\* C4: in every configuration reached from DEFAULT_EXPERIMENT_CONFIG by the
\* operations of VariantConfig (add, remove through an enabled remove
\* button, update of name, description, traffic or rate, switch to control,
\* balance) exactly one variant is the control and there are at least two
\* variants.
C4_OneControlTwoVariants == numControlsOf(variants) = 1 /\ Len(variants) >= 2

(***************************************************************************)
(* Properties of the futility bound                                        *)
(***************************************************************************)
\* a call of calculateSequentialBounds that has returned, with futility
\* monitoring enabled and 0 < n <= nMax
BoundsReturnedWithFutility ==
    /\ fnResult # <<>>
    /\ fnArgs.fn = "calculateSequentialBounds"
    /\ fnArgs.fut
    /\ 0 < fnArgs.n
    /\ fnArgs.n <= fnArgs.nMax

FutilityBelowZeroBelowUpper ==
    /\ XLe(fnResult[1].futility, Lit(0))
    /\ XLe(Lit(0), fnResult[1].upper)

\* C11 as stated: with futility monitoring enabled, futility <= 0 <= upper
\* for every alpha and beta in (0,1), every n in (0, nMax] and every family.
C11_FutilityBelowZeroAnyBeta == BoundsReturnedWithFutility => FutilityBelowZeroBelowUpper

\* C11 amended: with futility monitoring enabled and beta in (0, 1/2],
\* futility <= 0 <= upper for every alpha in (0,1), every n in (0, nMax] and
\* every family; above 1/2 the futility bound normalInverse(beta) is positive.
C11_FutilityBelowZeroUpToHalf ==
    BoundsReturnedWithFutility =>
        IF fnArgs.be <= 500000 THEN FutilityBelowZeroBelowUpper
        ELSE XGt(fnResult[1].futility, Lit(0)) /\ XLe(Lit(0), fnResult[1].upper)

C11_Witness ==
    /\ BoundsReturnedWithFutility
    /\ fnArgs.be = 300000
    /\ fnArgs.al = 900000
    /\ fnArgs.bt = "wang-tsiatis"
    /\ XLt(fnResult[1].futility, Lit(0))

(***************************************************************************)
(* Properties of calculateSignificance                                     *)
(***************************************************************************)
\* a call of calculateSignificance that has returned
SignificanceReturned == fnResult # <<>> /\ fnArgs.fn = "calculateSignificance"

\* both arms have visitors, and none of them or all of them converted
PooledSEIsZero ==
    /\ fnArgs.visitorsA > 0
    /\ fnArgs.visitorsB > 0
    /\ \/ fnArgs.conversionsA = 0 /\ fnArgs.conversionsB = 0
       \/ fnArgs.conversionsA = fnArgs.visitorsA /\ fnArgs.conversionsB = fnArgs.visitorsB

\* C12: the two-sample test returns z = 0, not NaN and not an infinity,
\* whenever the pooled standard error is 0 (both arms without conversions,
\* or both arms converting every visitor).
C12_ZeroZWhenPooledSEIsZero ==
    (SignificanceReturned /\ PooledSEIsZero) => fnResult[1].zScore = Lit(0)

\* upper end minus lower end
intervalWidth(ci) == XSub(ci[2], ci[1])

\* the unpooled standard error of the observations of the call is positive
UnpooledSEIsPositive ==
    /\ fnArgs.visitorsA > 0
    /\ fnArgs.visitorsB > 0
    /\ XGt(seForCIOf(Div(Lit(fnArgs.conversionsA), Lit(fnArgs.visitorsA)), fnArgs.visitorsA,
                     Div(Lit(fnArgs.conversionsB), Lit(fnArgs.visitorsB)), fnArgs.visitorsB),
           Lit(0))

\* C14: the interval for pB - pA is (pB - pA) +/- zcrit x unpooled SE with
\* zcrit the critical value of the requested confidence level; so for the
\* same observations with unpooled SE > 0 the interval at a higher level
\* (99 over 95, 95 over 90) is strictly wider.
C14_IntervalWidensWithLevel ==
    (SignificanceReturned /\ UnpooledSEIsPositive) =>
        \A level \in ConfidenceLevels :
            level > fnArgs.confidenceLevel =>
                XGt(intervalWidth(calculateSignificance(
                        fnArgs.visitorsA, fnArgs.conversionsA, fnArgs.visitorsB,
                        fnArgs.conversionsB, level).confidenceInterval),
                    intervalWidth(fnResult[1].confidenceInterval))

(***************************************************************************)
(* Properties of the SignificanceTestCalculator                            *)
(***************************************************************************)
\* C13: when either arm has zero visitors the two-sample test fails: no
\* SignificanceResult is returned, and none computed from other inputs is
\* presented as the result.
C13_NoResultWithoutVisitors == (visitorsA = 0 \/ visitorsB = 0) => sigResults = <<>>

(***************************************************************************)
(* Properties of calculateSampleSize                                       *)
(***************************************************************************)
\* baselineRate (1 + effectSize / 100), in hundredths of a percent
treatmentRateOf(baselineRate, effectSize) == baselineRate * (100 + effectSize)

\* a call of calculateSampleSize that has returned, whose baseline rate is 0
\* or whose p2 is not inside (0, 1)
SampleSizeReturnedOutsideDomain ==
    /\ fnResult # <<>>
    /\ fnArgs.fn = "calculateSampleSize"
    /\ \/ fnArgs.baselineRate = 0
       \/ treatmentRateOf(fnArgs.baselineRate, fnArgs.effectSize) <= 0
       \/ treatmentRateOf(fnArgs.baselineRate, fnArgs.effectSize) >= 100 * 100

\* C15: when the baseline rate is 0 or p2 = p1 (1 + effect / 100) is outside
\* (0, 1) the sample-size solver fails with DomainError: it returns neither
\* a number nor NaN nor an infinity.
C15_NoValueOutsideDomain ==
    SampleSizeReturnedOutsideDomain => fnResult[1].k \notin {"num", "nan", "inf"}

(***************************************************************************)
(* Properties of calculateMinimumEffect                                    *)
(***************************************************************************)
MinimumEffectReturned == fnResult # <<>>

\* the loop has not run more than maxIterations times, and what is returned
\* is the midpoint of the bracket the loop ended with
MinimumEffectWithinCap ==
    /\ frame.iterations <= MaxIterations
    /\ MinimumEffectReturned =>
           /\ ~minimumEffectContinues(frame)
           /\ 2 * fnResult[1] = frame.minEffect + frame.maxEffect

\* C16: calculateMinimumEffect terminates for every n, target power and
\* alpha, also when the power is NaN or not monotone in the effect, after at
\* most 50 iterations, and returns the midpoint of its final bracket.
C16_MinimumEffectTerminates == []MinimumEffectWithinCap /\ <>MinimumEffectReturned

\* a call whose every power was NaN (baseline rate 0) has returned
C16_Witness ==
    /\ MinimumEffectReturned
    /\ fnArgs.baselineRate = 0
    /\ frame.iterations > 0
    /\ frame.minEffect = EffectUnit

(***************************************************************************)
(* Properties of the simulation summary                                    *)
(***************************************************************************)
\* the trials of the published run whose record of day 30 is significant
significantAtDay30 ==
    {i \in 0..(simResults.simulations - 1) :
        \E k \in 1..Len(simulationResultsOf(simResults.draws, i)) :
            /\ simulationResultsOf(simResults.draws, i)[k].day = Days
            /\ simulationResultsOf(simResults.draws, i)[k].isSignificant}

\* C17: in the summary powerAchieved = 100 x (runs whose day-30 record is
\* significant) / numberOfSimulations, and falsePositiveRate is powerAchieved
\* when the treatment effect of the run is exactly 0 and 0 otherwise.
C17_PowerFromFinalDay ==
    simResults # NoResults =>
        /\ simResults.powerAchieved =
               Mul(Div(Lit(Cardinality(significantAtDay30)), Lit(simResults.simulations)),
                   Hundred)
        /\ simResults.falsePositiveRate =
               IF simResults.treatmentEffect = 0 THEN simResults.powerAchieved ELSE Lit(0)

\* a run without treatment effect whose trials were significant early only
\* on some days and at the end on others
C17_Witness ==
    /\ simResults # NoResults
    /\ simResults.treatmentEffect = 0
    /\ simResults.draws = "last day of every third"
    /\ simResults.simulations = 50
    /\ simResults.powerAchieved = Lit(34)
    /\ simResults.falsePositiveRate = Lit(34)

(***************************************************************************)
(* Properties of erf                                                       *)
(***************************************************************************)
\* C18: the error function is odd: erf(-x) = -erf(x) for every real x,
\* x = 0 included.
C18_ErfIsOdd ==
    (fnResult # <<>> /\ fnArgs.fn = "erf") =>
        erf(XNeg(NumV(fnArgs.x))) = XNeg(fnResult[1])

(***************************************************************************)
(* Properties of the yields of runSimulation                               *)
(***************************************************************************)
\* the trials the step ran: of a call that starts, those before its first
\* await; of a call that resumes, those up to its next await or to its end.
\* A suspended call is at the start of trial sim, so every await is between
\* two trials.
trialsOfStep ==
    IF Len(loops') > Len(loops) THEN loops'[Len(loops')].sim
    ELSE IF loops = <<>> \/ loops' = loops THEN 0
    ELSE IF Len(loops') = Len(loops) THEN loops'[Len(loops')].sim - Head(loops).sim
    ELSE Head(loops).n - Head(loops).sim

\* C19: the simulation loop yields periodically: from the start of the run
\* to the first yield, and from one yield to the next (or to the end), at
\* most 10 trials are executed, and a yield happens between two trials only.
C19_AtMostTenTrialsBetweenYields == [][trialsOfStep <= 10]_vars

\* a call suspended at its third await, after the ten trials 11 .. 20
C19_Witness == \E i \in 1..Len(loops) : loops[i].sim = 21

\* the call of calculateProbabilityOfSuccess has returned
ProbabilityReturned == fnArgs.fn = "calculateProbabilityOfSuccess" /\ fnResult # <<>>

\* the remaining information fraction of the call is at most zero
NoInformationRemains == XLe(remainingInformationOf(Lit(fnArgs.cur), Lit(fnArgs.nMax)), Lit(0))

\* C20: whenever the remaining information fraction
\* 1 - currentSampleSize/maxSampleSize is at most zero,
\* calculateProbabilityOfSuccess returns exactly 0 or exactly 1, whatever
\* the current z and the bounds.
C20_ZeroOrOneWithoutRemainingInformation ==
    (ProbabilityReturned /\ NoInformationRemains) => fnResult[1] \in {Lit(0), Lit(1)}

\* a call past the planned sample size with z above the upper bound returns 1
C20_Witness ==
    /\ ProbabilityReturned
    /\ NoInformationRemains
    /\ fnArgs.cur = 2000 /\ fnArgs.nMax = 1000
    /\ fnArgs.z = 3000000 /\ fnArgs.upper = 2000000
    /\ fnResult[1] = Lit(1)

\* the call of generateBoundaryHistory has returned
HistoryReturned == fnArgs.fn = "generateBoundaryHistory" /\ fnResult # <<>>

\* twenty times the distance of the i-th grid point from the current sample size
gridDistance(i) == AbsI(fnArgs.nMax * i - Steps * fnArgs.cur)

\* the grid points at the least distance from the current sample size
nearestPoints == {i \in 1..Steps : \A j \in 1..Steps : gridDistance(i) <= gridDistance(j)}

\* the points of the returned history that carry the z-score
annotatedPoints == {i \in 1..Len(fnResult[1]) : fnResult[1][i].zScore # <<>>}

\* C21: the boundary history is a sequence of twenty points at the sample
\* sizes nMax * i / 20, i = 1..20, and for every current sample size in
\* (0, nMax] the observed z-score is attached to the point nearest the
\* current sample size and to no other point.
C21_ZScoreOnNearestPointOnly ==
    (HistoryReturned /\ 0 < fnArgs.cur /\ fnArgs.cur <= fnArgs.nMax)
        => /\ Len(fnResult[1]) = Steps
           /\ \A i \in 1..Steps : fnResult[1][i].n = historyN(fnArgs.nMax, i)
           /\ Cardinality(annotatedPoints) = 1
           /\ annotatedPoints \subseteq nearestPoints

\* C22: at most one simulation loop (a call of runSimulation that has not yet
\* published its summary) is active at any time, under every interleaving of
\* Run clicks, Reset clicks and the loop's yield points; the Run button is
\* enabled (isRunning is false) only when no loop is active.
C22_AtMostOneLoop == Len(loops) <= 1 /\ (~isRunning => loops = <<>>)

\* C23: in every state reachable from the default configuration by
\* VariantConfig operations (add, remove, switch control, balance, edits of
\* rate or traffic to positive values), with dailyTraffic > 0, the published
\* design analysis has finite totalSampleSize, expectedDuration and
\* estimatedCost.
C23_PublishedAnalysisFinite ==
    dailyTraffic > 0 => /\ IsNum(analysis.totalSampleSize)
                        /\ IsNum(analysis.expectedDuration)
                        /\ IsNum(analysis.estimatedCost)

\* C24: in the DesignAnalysis the control variant's entry of
\* sampleSizePerVariant equals the maximum of the treatment variants'
\* entries, for any number of treatments listed in any order.
C24_ControlEntryIsMaximum ==
    (DesignReturned /\ numControlsOf(fnArgs.variants) = 1) =>
        LET vs == fnArgs.variants
            control == vs[controlIndexOf(vs)]
            sizes == fnResult[1].sampleSizePerVariant
            treatmentIds == {vs[i].id : i \in {j \in 1..Len(vs) : ~vs[j].isControl}}
        IN  /\ \A t \in treatmentIds : XGe(sizes[control.id], sizes[t])
            /\ \E t \in treatmentIds : sizes[control.id] = sizes[t]

\* the analysis derived from a z-score and its bounds has returned
AnalysisReturned == fnArgs.fn = "analysisResult" /\ fnResult # <<>>

\* C25: within one sequential analysis, whenever the trial is at or past its
\* cap (currentSampleSize >= maxSampleSize) and the recommendation is
\* stop_success, the reported probabilityOfSuccess is 1, also when z equals
\* the upper boundary exactly.
C25_SuccessAtCapHasProbabilityOne ==
    (AnalysisReturned /\ fnArgs.cur >= fnArgs.nMax /\ fnResult[1].recommendation = "stop_success")
        => fnResult[1].probabilityOfSuccess = Lit(1)

(***************************************************************************)
(* Properties of the designer's effects                                    *)
(***************************************************************************)
\* no effect is waiting to run
Quiescent == pendingEffects = {}

\* the stored total and analysis are those of the current configuration
DerivedStateCurrent ==
    /\ totalTrafficAllocation = totalAllocationOf(variants)
    /\ analysis = performDesignAnalysis(variants, totalTrafficAllocation, power, significance,
                                        dailyTraffic, costPerVisitor)

\* C26: after any single edit of the configuration the recomputation reaches
\* a quiescent state after finitely many effect executions, and in that state
\* config.totalTrafficAllocation is the sum of the variants' trafficAllocation
\* and the stored analysis is performDesignAnalysis of the current config,
\* dailyTraffic and costPerVisitor.
C26_EffectsSettleOnCurrentConfig ==
    /\ [](Quiescent => DerivedStateCurrent)
    /\ (~Quiescent ~> Quiescent)

(***************************************************************************)
(* Properties of the SampleSizeCalculator's timers                         *)
(***************************************************************************)
\* C27: under any sequence of input changes interleaved with the firing of
\* the 500 ms timers, whenever no timer is pending the published result is
\* the one computed from the current inputs, and isCalculating is true
\* exactly while at least one timer is pending.
C27_ResultCurrentWhenNoTimerPending ==
    /\ calcTimers = <<>> => calcResults = <<calculatorSampleSize(calcInputs)>>
    /\ isCalculating <=> calcTimers # <<>>

(***************************************************************************)
(* Properties of balanceTrafficAllocation                                  *)
(***************************************************************************)
\* balancing a configuration of k variants has returned
BalanceReturned == fnArgs.fn = "balanceTrafficAllocation" /\ fnResult # <<>>

\* C28: after balanceTrafficAllocation on a configuration with k variants,
\* 2 <= k <= 100, every trafficAllocation is a non-negative integer, any two
\* allocations differ by at most 1, and the allocations sum to exactly 100.
C28_BalancedAllocationsSumTo100 ==
    (BalanceReturned /\ 2 <= fnArgs.len /\ fnArgs.len <= 100) =>
        /\ Len(fnResult[1]) = fnArgs.len
        /\ \A i \in 1..fnArgs.len : fnResult[1][i].trafficAllocation \in Nat
        /\ \A i, j \in 1..fnArgs.len :
               fnResult[1][i].trafficAllocation - fnResult[1][j].trafficAllocation <= 1
        /\ totalAllocationOf(fnResult[1]) = 100

\* three variants are given 34, 33 and 33
C28_Witness ==
    /\ BalanceReturned
    /\ fnArgs.len = 3
    /\ fnResult[1][1].trafficAllocation = 34
    /\ fnResult[1][2].trafficAllocation = 33
    /\ fnResult[1][3].trafficAllocation = 33

(***************************************************************************)
(* Properties of the bracket of calculateMinimumEffect                     *)
(***************************************************************************)
\* 1 <= minEffect <= maxEffect <= 100
BracketWithinRange ==
    /\ EffectUnit <= frame.minEffect
    /\ frame.minEffect <= frame.maxEffect
    /\ frame.maxEffect <= 100 * EffectUnit

\* a return happens after exactly ten iterations, with a bracket of width at
\* most 0.1, and the value returned is strictly between 1 and 100
ReturnsAfterTenIterations ==
    MinimumEffectReturned =>
        /\ frame.iterations = 10
        /\ 10 * (frame.maxEffect - frame.minEffect) <= EffectUnit
        /\ EffectUnit < fnResult[1]
        /\ fnResult[1] < 100 * EffectUnit

\* C29: throughout calculateMinimumEffect 1 <= minEffect <= maxEffect <= 100
\* holds and the bracket width halves at every iteration, whatever the power
\* function returns; the loop exits by the width test (width <= 0.1) after
\* exactly 10 iterations, never by the 50-iteration cap, and the returned
\* effect lies strictly between 1 and 100.
C29_BracketHalvesTenTimes ==
    /\ [](BracketWithinRange /\ ReturnsAfterTenIterations)
    /\ [][frame' # frame =>
              /\ frame'.iterations = frame.iterations + 1
              /\ 2 * (frame'.maxEffect - frame'.minEffect) = frame.maxEffect - frame.minEffect]_vars

\* a call that moved both ends of the bracket has returned
C29_Witness ==
    /\ MinimumEffectReturned
    /\ frame.iterations = 10
    /\ frame.minEffect > EffectUnit
    /\ frame.maxEffect < 100 * EffectUnit

\* C30: in every configuration reachable by VariantConfig operations the
\* variants' ids are pairwise distinct (so that update, remove and
\* switch-to-control, which select by id, affect exactly one variant), also
\* when two variants are added within the same clock millisecond.
C30_VariantIdsDistinct ==
    \A i, j \in 1..Len(variants) : i # j => variants[i].id # variants[j].id

====
